---- MODULE Spec2Model ----
(***************************************************************************)
(* Model of the obsidian-asciidoc-exporter plugin: the HTTP export server  *)
(* (http-server.ts, kept in src/unnamed/part_000) and the in-memory export *)
(* of VaultExporter (src/src/types.ts, lines 96 onwards).                  *)
(*                                                                         *)
(* Paths are TLA+ strings handled character by character with SubSeq.      *)
(* File contents are sequences of byte values; a JavaScript string read    *)
(* from an ASCII file is the same sequence, read as character codes.       *)
(***************************************************************************)
EXTENDS Integers, Sequences, FiniteSets, TLC

(***************************************************************************)
(* Bounds of the model.                                                    *)
(***************************************************************************)
\* number of HTTP requests the server handles at the same time
MaxInFlight == 2
\* the archive streamer may fail while adding one of the first MaxFaultAt entries
MaxFaultAt == 2
\* number of start()/stop() calls made on the server in one behaviour
MaxCalls == 3

\* the reads, mkdirs and writes of exportVault calls that fail in one behaviour
MaxFailures == 1
\* the exportVault calls the plugin makes in one behaviour
MaxRuns == 2

(***************************************************************************)
(* String helpers (String.prototype methods used by the code).             *)
(***************************************************************************)
CharAt(s, i) == SubSeq(s, i, i)

EndsWith(s, suf) ==
    /\ Len(s) >= Len(suf)
    /\ SubSeq(s, Len(s) - Len(suf) + 1, Len(s)) = suf

StartsWith(s, pre) ==
    /\ Len(s) >= Len(pre)
    /\ SubSeq(s, 1, Len(pre)) = pre

UpperChars == "ABCDEFGHIJKLMNOPQRSTUVWXYZ"
LowerChars == "abcdefghijklmnopqrstuvwxyz"

\* the lower case letter of each upper case letter
LowerOf ==
    [c \in { CharAt(UpperChars, k) : k \in 1..26 } |->
        CharAt(LowerChars, CHOOSE k \in 1..26 : CharAt(UpperChars, k) = c)]

LowerChar(c) == IF c \in DOMAIN LowerOf THEN LowerOf[c] ELSE c

RECURSIVE ToLowerCase(_)
ToLowerCase(s) ==
    IF Len(s) = 0 THEN s
    ELSE LowerChar(CharAt(s, 1)) \o ToLowerCase(SubSeq(s, 2, Len(s)))

\* path.replace(/\.md$/, '.adoc')
ReplaceMdExt(p) ==
    IF EndsWith(p, ".md") THEN SubSeq(p, 1, Len(p) - 3) \o ".adoc" ELSE p

\* the character at position p, "" outside the text
At(s, p) == IF p >= 1 /\ p <= Len(s) THEN SubSeq(s, p, p) ELSE ""

\* the text from position a to position b, cut at the end of the text
Sub(s, a, b) ==
    IF a > Len(s) \/ b < a THEN ""
    ELSE SubSeq(s, a, IF b > Len(s) THEN Len(s) ELSE b)

\* the literal lit stands at position p
Has(s, p, lit) ==
    /\ p >= 1
    /\ p + Len(lit) - 1 <= Len(s)
    /\ SubSeq(s, p, p + Len(lit) - 1) = lit

\* the largest and the smallest element of a set of integers that is not
\* empty
Largest(set) == CHOOSE x \in set : \A y \in set : y <= x

Smallest(set) == CHOOSE x \in set : \A y \in set : x <= y

\* [^...]*: the length of the longest run, from position p, of characters
\* that are not in the set cs
RunExcept(s, p, cs) ==
    IF p > Len(s) THEN 0
    ELSE Smallest({ q \in p..(Len(s) + 1) : At(s, q) = "" \/ At(s, q) \in cs }) - p

\* [...]*: the length of the longest run, from position p, of characters of
\* the set cs
RunOf(s, p, cs) ==
    IF p > Len(s) THEN 0
    ELSE Smallest({ q \in p..(Len(s) + 1) : At(s, q) \notin cs }) - p

\* s.indexOf(sub, i) as an index from 1: the first occurrence of sub at or
\* after position i, 0 when there is none
Find(s, sub, i) ==
    LET found == { j \in i..Len(s) : Has(s, j, sub) }
    IN  IF found = {} THEN 0 ELSE Smallest(found)

\* s.split(c) for a character c: the texts between its occurrences
SplitOn(s, c) ==
    LET breaks == { q \in 1..Len(s) : At(s, q) = c }
        \* the position of the k-th occurrence; 0 and Len(s) + 1 at the ends
        Break(k) == IF k = 0 THEN 0
                    ELSE IF k > Cardinality(breaks) THEN Len(s) + 1
                    ELSE CHOOSE q \in breaks :
                            Cardinality({ b \in breaks : b <= q }) = k
    IN  [k \in 1..(Cardinality(breaks) + 1) |-> Sub(s, Break(k - 1) + 1, Break(k) - 1)]

\* the texts of a sequence from index a to index b, one after the other
RECURSIVE Concat(_, _, _)
Concat(parts, a, b) ==
    IF a > b THEN ""
    ELSE IF a = b THEN parts[a]
    ELSE Concat(parts, a, (a + b) \div 2) \o Concat(parts, ((a + b) \div 2) + 1, b)

Digits == "0123456789"

CharsOf(str) == { At(str, k) : k \in 1..Len(str) }

(***************************************************************************)
(* VaultExporter.isBinaryFile: static extension list, case-insensitive.    *)
(***************************************************************************)
binaryExtensions ==
    {".png", ".jpg", ".jpeg", ".gif", ".svg", ".pdf", ".mp4", ".mp3",
     ".webp", ".bmp", ".tiff", ".zip", ".rar", ".7z", ".exe", ".dmg"}

isBinaryFile(filePath) ==
    \E ext \in binaryExtensions : EndsWith(ToLowerCase(filePath), ext)

(***************************************************************************)
(* Base64 transport encoding: Buffer.from(bytes).toString('base64') and    *)
(* Buffer.from(text, 'base64').  Characters are character codes.           *)
(***************************************************************************)
\* the character code of sextet v in the standard alphabet
B64Char(v) ==
    IF v < 26 THEN 65 + v
    ELSE IF v < 52 THEN 97 + (v - 26)
    ELSE IF v < 62 THEN 48 + (v - 52)
    ELSE IF v = 62 THEN 43
    ELSE 47

PadChar == 61

\* the sextet of character code c, or -1 when c is not a base64 character
\* (the decoder also accepts the URL-safe characters '-' and '_')
B64Val(c) ==
    IF c >= 65 /\ c <= 90 THEN c - 65
    ELSE IF c >= 97 /\ c <= 122 THEN c - 97 + 26
    ELSE IF c >= 48 /\ c <= 57 THEN c - 48 + 52
    ELSE IF c = 43 \/ c = 45 THEN 62
    ELSE IF c = 47 \/ c = 95 THEN 63
    ELSE -1

RECURSIVE Base64Encode(_)
Base64Encode(bytes) ==
    IF Len(bytes) = 0 THEN << >>
    ELSE IF Len(bytes) = 1 THEN
        << B64Char(bytes[1] \div 4), B64Char((bytes[1] % 4) * 16),
           PadChar, PadChar >>
    ELSE IF Len(bytes) = 2 THEN
        << B64Char(bytes[1] \div 4),
           B64Char((bytes[1] % 4) * 16 + bytes[2] \div 16),
           B64Char((bytes[2] % 16) * 4), PadChar >>
    ELSE
        << B64Char(bytes[1] \div 4),
           B64Char((bytes[1] % 4) * 16 + bytes[2] \div 16),
           B64Char((bytes[2] % 16) * 4 + bytes[3] \div 64),
           B64Char(bytes[3] % 64) >>
        \o Base64Encode(SubSeq(bytes, 4, Len(bytes)))

\* the sextets of the text up to the first padding character; characters
\* outside the alphabet are skipped
RECURSIVE Sextets(_)
Sextets(text) ==
    IF Len(text) = 0 \/ text[1] = PadChar THEN << >>
    ELSE IF B64Val(text[1]) = -1 THEN Sextets(Tail(text))
    ELSE << B64Val(text[1]) >> \o Sextets(Tail(text))

RECURSIVE SextetsToBytes(_)
SextetsToBytes(sx) ==
    IF Len(sx) < 2 THEN << >>
    ELSE IF Len(sx) = 2 THEN << sx[1] * 4 + sx[2] \div 16 >>
    ELSE IF Len(sx) = 3 THEN
        << sx[1] * 4 + sx[2] \div 16, (sx[2] % 16) * 16 + sx[3] \div 4 >>
    ELSE
        << sx[1] * 4 + sx[2] \div 16, (sx[2] % 16) * 16 + sx[3] \div 4,
           (sx[3] % 4) * 64 + sx[4] >>
        \o SextetsToBytes(SubSeq(sx, 5, Len(sx)))

Base64Decode(text) == SextetsToBytes(Sextets(text))

(***************************************************************************)
(* JavaScript values met in request data (JSON.parse results, query        *)
(* parameters) and the operators the code applies to them.                 *)
(***************************************************************************)
Undefined == [t |-> "undef"]
JNull == [t |-> "null"]
\* v holds the literal of a boolean or number, the characters of a string
JBool(b) == [t |-> "bool", v |-> IF b THEN "true" ELSE "false"]
JStr(s) == [t |-> "str", v |-> s]
JNum(literal) == [t |-> "num", v |-> literal]
JObj(f) == [t |-> "obj", f |-> f]

\* data.name: a TypeError on null and undefined, undefined when missing
CanReadProp(data) == data.t \notin {"null", "undef"}

Prop(data, name) ==
    IF data.t = "obj" /\ name \in DOMAIN data.f THEN data.f[name]
    ELSE Undefined

Truthy(v) ==
    CASE v.t = "undef" -> FALSE
      [] v.t = "null" -> FALSE
      [] v.t = "bool" -> v.v = "true"
      [] v.t = "num" -> v.v # "0"
      [] v.t = "str" -> v.v # ""
      [] OTHER -> TRUE

\* a || b
OrElse(a, b) == IF Truthy(a) THEN a ELSE b

\* a === b for the values above (objects are never compared by the code)
StrictEq(a, b) == a = b

DefaultExportPath == JStr("vault-export")

(***************************************************************************)
(* JSON.parse on the request bodies of the model.                          *)
(***************************************************************************)
Bodies ==
    { "{}",
      "{",
      "null",
      "{\"includeAttachments\":false,\"renderDiagrams\":true}",
      "{\"includeAttachments\":\"false\",\"exportPath\":\"out\"}" }

JSONParse(body) ==
    CASE body = "{}" -> [ok |-> TRUE, value |-> JObj(<< >>)]
      [] body = "null" -> [ok |-> TRUE, value |-> JNull]
      [] body = "{\"includeAttachments\":false,\"renderDiagrams\":true}" ->
            [ok |-> TRUE,
             value |-> JObj([n \in {"includeAttachments", "renderDiagrams"} |->
                              IF n = "includeAttachments" THEN JBool(FALSE)
                              ELSE JBool(TRUE)])]
      [] body = "{\"includeAttachments\":\"false\",\"exportPath\":\"out\"}" ->
            [ok |-> TRUE,
             value |-> JObj([n \in {"includeAttachments", "exportPath"} |->
                              IF n = "includeAttachments" THEN JStr("false")
                              ELSE JStr("out")])]
      [] OTHER -> [ok |-> FALSE, value |-> Undefined]

(***************************************************************************)
(* String.prototype.indexOf and split for one character.                   *)
(***************************************************************************)
\* index of the first occurrence of character c in s, 0 when absent
RECURSIVE IndexFrom(_, _, _)
IndexFrom(s, c, i) ==
    IF i > Len(s) THEN 0
    ELSE IF CharAt(s, i) = c THEN i
    ELSE IndexFrom(s, c, i + 1)

IndexOf(s, c) == IndexFrom(s, c, 1)

\* s.split(c)
RECURSIVE Split(_, _)
Split(s, c) ==
    IF IndexOf(s, c) = 0 THEN << s >>
    ELSE << SubSeq(s, 1, IndexOf(s, c) - 1) >>
         \o Split(SubSeq(s, IndexOf(s, c) + 1, Len(s)), c)

(***************************************************************************)
(* new URL(req.url, 'http://' + req.headers.host), line 76: the URL parser *)
(* of the runtime as far as the handler observes it: whether it throws,    *)
(* url.pathname and url.searchParams.get.  A parsed URL is a record        *)
(* [ok, scheme, path, opaque, query]: path holds the segments that follow  *)
(* the leading slash, opaque the path of a URL that has no segments (a     *)
(* string, else null), query the text after the question mark (a string,   *)
(* else null).  Texts are ASCII; a byte that is no printable ASCII         *)
(* character, and the backquote, which a string of the model cannot hold,  *)
(* are written as Unprintable.                                             *)
(***************************************************************************)
UrlFailure == [ok |-> FALSE]

Url(scheme, path, opaque, query) ==
    [ok |-> TRUE, scheme |-> scheme, path |-> path, opaque |-> opaque, query |-> query]

SpecialSchemes == { "ftp", "file", "http", "https", "ws", "wss" }

Unprintable == "\f"

\* the characters with the codes 32 to 126
Ascii ==
    " !\"#$%&'()*+,-./0123456789:;<=>?@ABCDEFGHIJKLMNOPQRSTUVWXYZ[\\]^_"
    \o Unprintable \o "abcdefghijklmnopqrstuvwxyz{|}~"

HexDigits == "0123456789abcdef"

UpperHexDigits == "0123456789ABCDEF"

\* the code of each of them
AsciiCodes == [c \in CharsOf(Ascii) |-> 31 + Find(Ascii, c, 1)]

CodeOf(c) ==
    CASE c = "\t" -> 9
      [] c = "\n" -> 10
      [] c = "\f" -> 12
      [] c = "\r" -> 13
      [] c \in DOMAIN AsciiCodes -> AsciiCodes[c]
      [] OTHER -> 31

CharOf(b) ==
    CASE b = 9 -> "\t"
      [] b = 10 -> "\n"
      [] b = 13 -> "\r"
      [] b >= 32 /\ b <= 126 /\ b # 96 -> At(Ascii, b - 31)
      [] OTHER -> Unprintable

\* the value of each hexadecimal digit
HexValues ==
    [c \in CharsOf(HexDigits) \cup CharsOf(UpperHexDigits) |->
        Find(HexDigits, LowerChar(c), 1) - 1]

IsHex(c) == c \in DOMAIN HexValues

HexVal(c) == IF IsHex(c) THEN HexValues[c] ELSE -1

\* a character written as %XX
PercentEncoded(c) ==
    "%" \o At(UpperHexDigits, (CodeOf(c) \div 16) + 1)
        \o At(UpperHexDigits, (CodeOf(c) % 16) + 1)

AsciiAlpha == CharsOf(UpperChars) \cup CharsOf(LowerChars)

\* the characters of a sequence of characters, as one text
Text(chars) == Concat(chars, 1, Len(chars))

\* the elements of a set of integers in ascending order
Ascending(set) ==
    [k \in 1..Cardinality(set) |->
        CHOOSE q \in set : Cardinality({ b \in set : b <= q }) = k]

\* the texts of s between the positions of the sequence breaks
Pieces(s, breaks) ==
    [k \in 1..(Len(breaks) + 1) |->
        Sub(s, (IF k = 1 THEN 0 ELSE breaks[k - 1]) + 1,
               (IF k > Len(breaks) THEN Len(s) + 1 ELSE breaks[k]) - 1)]

\* the texts between the characters of the set cs
SplitAny(s, cs) == Pieces(s, Ascending({ q \in 1..Len(s) : At(s, q) \in cs }))

\* the text before the first character of the set cs, and the text from
\* that character on
BeforeAny(s, cs) == Sub(s, 1, RunExcept(s, 1, cs))

FromAny(s, cs) == Sub(s, RunExcept(s, 1, cs) + 1, Len(s))

\* the position of the last character of the set cs, 0 when there is none
LastOf(s, cs) ==
    IF s # "" /\ At(s, Len(s)) \in cs THEN Len(s)
    ELSE Largest({ 0 } \cup { p \in 1..Len(s) : At(s, p) \in cs })

\* the text from position a to position b without its tabs and newlines
WithoutNewlines(s, a, b) ==
    IF CharsOf(s) \cap { "\t", "\n", "\r" } = {} THEN Sub(s, a, b)
    ELSE Text([p \in 1..(b - a + 1) |->
            IF At(s, a + p - 1) \in { "\t", "\n", "\r" } THEN "" ELSE At(s, a + p - 1)])

\* leading and trailing C0 controls and spaces are removed, and every tab
\* and newline
Preprocess(input) ==
    WithoutNewlines(input,
                    1 + RunOf(input, 1, { " ", "\t", "\n", "\f", "\r" }),
                    LastOf(input, CharsOf(input) \ { " ", "\t", "\n", "\f", "\r" }))

\* p when a colon stands there, else 0
ColonAt(s, p) == IF At(s, p) = ":" THEN p ELSE 0

\* the position of the colon that ends a scheme, 0 when the text has none
SchemeEnd(s) ==
    IF At(s, 1) \notin AsciiAlpha THEN 0
    ELSE ColonAt(s, 2 + RunOf(s, 2, AsciiAlpha \cup CharsOf(Digits) \cup { "+", "-", "." }))

\* percent-decoding: the bytes of a text, %XX giving one byte
RECURSIVE PercentBytes(_)
PercentBytes(s) ==
    IF s = "" THEN << >>
    ELSE IF At(s, 1) = "%" /\ IsHex(At(s, 2)) /\ IsHex(At(s, 3))
    THEN << 16 * HexVal(At(s, 2)) + HexVal(At(s, 3)) >> \o PercentBytes(Sub(s, 4, Len(s)))
    ELSE << CodeOf(At(s, 1)) >> \o PercentBytes(Sub(s, 2, Len(s)))

\* the number of continuation bytes a UTF-8 lead byte asks for, -1 for a
\* byte that cannot lead
Continuations(b) ==
    IF b < 128 THEN 0
    ELSE IF b >= 194 /\ b <= 223 THEN 1
    ELSE IF b >= 224 /\ b <= 239 THEN 2
    ELSE IF b >= 240 /\ b <= 244 THEN 3
    ELSE -1

\* the least and the greatest byte that may follow a lead byte
SecondLow(b) == IF b = 224 THEN 160 ELSE IF b = 240 THEN 144 ELSE 128

SecondHigh(b) == IF b = 237 THEN 159 ELSE IF b = 244 THEN 143 ELSE 191

\* the byte k places after the lead byte at i continues its sequence
ContinuesAt(bytes, i, k) ==
    /\ i + k <= Len(bytes)
    /\ bytes[i + k] >= (IF k = 1 THEN SecondLow(bytes[i]) ELSE 128)
    /\ bytes[i + k] <= (IF k = 1 THEN SecondHigh(bytes[i]) ELSE 191)

\* the number of bytes after the byte at i that continue its sequence
Followers(bytes, i) ==
    Largest({ 0 } \cup { m \in 1..Continuations(bytes[i]) :
                           \A k \in 1..m : ContinuesAt(bytes, i, k) })

RECURSIVE WellFormedUtf8(_, _)
WellFormedUtf8(bytes, i) ==
    IF i > Len(bytes) THEN TRUE
    ELSE /\ Continuations(bytes[i]) >= 0
         /\ Followers(bytes, i) = Continuations(bytes[i])
         /\ WellFormedUtf8(bytes, i + Continuations(bytes[i]) + 1)

\* UTF-8 decoding: a byte below 128 is its character, a well-formed
\* sequence of two or three bytes is one character, one of four bytes is
\* the two UTF-16 units of its character, and a byte that cannot lead or
\* a sequence that breaks off is one replacement character
Utf8Unit(b, m) ==
    IF b < 128 THEN CharOf(b)
    ELSE IF m = 3 /\ Continuations(b) = 3 THEN Unprintable \o Unprintable
    ELSE Unprintable

RECURSIVE Utf8Text(_, _)
Utf8From(bytes, i, m) == Utf8Unit(bytes[i], m) \o Utf8Text(bytes, i + m + 1)

Utf8Text(bytes, i) ==
    IF i > Len(bytes) THEN "" ELSE Utf8From(bytes, i, Followers(bytes, i))

\* the digits of a number of an IPv4 address written in a radix: ok when
\* the part is not empty and has digits of the radix only; sig is the
\* digits without leading zeros
NumberOf(radix, digits, part) ==
    [ok |-> /\ part # ""
            /\ \A p \in 1..Len(digits) :
                  IsHex(At(digits, p)) /\ HexVal(At(digits, p)) < radix,
     radix |-> radix,
     sig |-> Sub(digits, RunOf(digits, 1, { "0" }) + 1, Len(digits))]

\* one number of an IPv4 address: 0x and 0 announce hexadecimal and octal
Ipv4Number(part) ==
    IF Len(part) >= 2 /\ At(part, 1) = "0" /\ At(part, 2) \in { "x", "X" }
    THEN NumberOf(16, Sub(part, 3, Len(part)), part)
    ELSE IF Len(part) >= 2 /\ At(part, 1) = "0"
    THEN NumberOf(8, Sub(part, 2, Len(part)), part)
    ELSE NumberOf(10, part, part)

RECURSIVE DigitsValue(_, _)
DigitsValue(radix, sig) ==
    IF sig = "" THEN 0
    ELSE DigitsValue(radix, Sub(sig, 1, Len(sig) - 1)) * radix + HexVal(At(sig, Len(sig)))

\* the most digits whose value the model computes
SafeDigits(radix) == IF radix = 16 THEN 7 ELSE IF radix = 8 THEN 10 ELSE 9

\* number >= bound, for a bound up to 256^3
AtLeast(n, bound) ==
    Len(n.sig) > SafeDigits(n.radix) \/ DigitsValue(n.radix, n.sig) >= bound

\* number < 256^4
Below32Bits(n) ==
    \/ Len(n.sig) <= SafeDigits(n.radix)
    \/ n.radix = 16 /\ Len(n.sig) = 8
    \/ n.radix = 8 /\ Len(n.sig) = 11 /\ HexVal(At(n.sig, 1)) <= 3
    \/ /\ n.radix = 10 /\ Len(n.sig) = 10
       /\ \/ DigitsValue(10, Sub(n.sig, 1, 9)) < 429496729
          \/ DigitsValue(10, Sub(n.sig, 1, 9)) = 429496729 /\ HexVal(At(n.sig, 10)) <= 5

\* a last empty part is dropped
WithoutLastEmpty(parts) ==
    IF Len(parts) > 1 /\ parts[Len(parts)] = ""
    THEN SubSeq(parts, 1, Len(parts) - 1) ELSE parts

\* the parts of a host between its dots
Ipv4Parts(host) == WithoutLastEmpty(SplitAny(host, { "." }))

\* the last part of a host is a number
IsNumber(last) ==
    \/ last # "" /\ CharsOf(last) \subseteq CharsOf(Digits)
    \/ Ipv4Number(last).ok

\* the numbers of an IPv4 address: at most four, the last one filling the
\* bytes the others leave
Ipv4NumbersOk(nums) ==
    /\ Len(nums) <= 4
    /\ \A k \in 1..Len(nums) : nums[k].ok
    /\ \A k \in 1..(Len(nums) - 1) : ~AtLeast(nums[k], 256)
    /\ IF Len(nums) = 1 THEN Below32Bits(nums[1])
       ELSE ~AtLeast(nums[Len(nums)],
                     IF Len(nums) = 2 THEN 16777216
                     ELSE IF Len(nums) = 3 THEN 65536 ELSE 256)

Ipv4PartsOk(parts) == Ipv4NumbersOk([k \in 1..Len(parts) |-> Ipv4Number(parts[k])])

\* a host that ends in a number is an IPv4 address
Ipv4HostOk(parts) == IsNumber(parts[Len(parts)]) => Ipv4PartsOk(parts)

\* the dotted quad that may end an IPv6 address
Ipv4TailParts(parts) ==
    /\ Len(parts) = 4
    /\ \A k \in 1..4 :
          /\ parts[k] # "" /\ CharsOf(parts[k]) \subseteq CharsOf(Digits)
          /\ Len(parts[k]) > 1 => At(parts[k], 1) # "0"
          /\ Len(parts[k]) <= 3 /\ DigitsValue(10, parts[k]) <= 255

Ipv4Tail(p) == Ipv4TailParts(SplitAny(p, { "." }))

Ipv6Piece(p) == Len(p) >= 1 /\ Len(p) <= 4 /\ \A k \in 1..Len(p) : IsHex(At(p, k))

\* the 16-bit pieces a list of pieces stands for, -1 when one is malformed
Ipv6Pieces(pieces) ==
    IF \A k \in 1..Len(pieces) :
          Ipv6Piece(pieces[k]) \/ (k = Len(pieces) /\ Ipv4Tail(pieces[k]))
    THEN Len(pieces) + (IF Len(pieces) > 0 /\ ~Ipv6Piece(pieces[Len(pieces)]) THEN 1 ELSE 0)
    ELSE -1

\* the pieces of a text between its colons, none for the empty text
PiecesOf(s) == IF s = "" THEN << >> ELSE SplitAny(s, { ":" })

\* an address with the pieces left and right of its "::"
Ipv6Compressed(left, right) ==
    /\ \A x \in 1..Len(left) : Ipv6Piece(left[x])
    /\ Ipv6Pieces(right) >= 0
    /\ Len(left) + Ipv6Pieces(right) <= 7

\* an address whose first "::" is at position k (0: it has none)
Ipv6At(s, k) ==
    IF k = 0 THEN Ipv6Pieces(SplitAny(s, { ":" })) = 8
    ELSE Ipv6Compressed(PiecesOf(Sub(s, 1, k - 1)), PiecesOf(Sub(s, k + 2, Len(s))))

Ipv6Ok(s) == Ipv6At(s, Find(s, "::", 1))

ForbiddenHostChars ==
    { "\t", "\n", "\r", " ", "#", "/", ":", "<", ">", "?", "@", "[", "\\", "]", "^", "|" }

\* Punycode (RFC 3492) with 32-bit arithmetic: the value of a digit, -1 for
\* a character that is none
PunyDigit(c) ==
    IF c \in CharsOf(LowerChars) THEN CodeOf(c) - 97
    ELSE IF c \in CharsOf(Digits) THEN CodeOf(c) - 22
    ELSE -1

PunyFailure == [ok |-> FALSE]

\* the threshold of the digit at position k
Threshold(k, bias) == IF k <= bias THEN 1 ELSE IF k >= bias + 26 THEN 26 ELSE k - bias

\* one delta: the digits are taken from rest until one is below its
\* threshold; i is the index so far and w the weight of the next digit
RECURSIVE PunyDelta(_, _, _, _, _)
PunyDigitStep(rest, digit, i, w, k, t, bias) ==
    IF digit < 0 \/ digit > (2147483647 - i) \div w THEN PunyFailure
    ELSE IF digit < t THEN [ok |-> TRUE, rest |-> rest, i |-> i + digit * w]
    ELSE IF w > 2147483647 \div (36 - t) THEN PunyFailure
    ELSE PunyDelta(rest, i + digit * w, w * (36 - t), k + 36, bias)

PunyDelta(rest, i, w, k, bias) ==
    IF rest = "" THEN PunyFailure
    ELSE PunyDigitStep(Sub(rest, 2, Len(rest)), PunyDigit(At(rest, 1)), i, w, k,
                       Threshold(k, bias), bias)

\* the bias adaptation
RECURSIVE AdaptLoop(_, _)
AdaptLoop(delta, k) ==
    IF delta > 455 THEN AdaptLoop(delta \div 35, k + 36)
    ELSE k + (36 * delta) \div (delta + 38)

AdaptFrom(delta, numpoints) == AdaptLoop(delta + delta \div numpoints, 0)

Adapt(delta, numpoints, first) ==
    AdaptFrom(IF first THEN delta \div 700 ELSE delta \div 2, numpoints)

\* the code points out with n inserted before the one at index pos
InsertAt(out, pos, n) ==
    SubSeq(out, 1, pos) \o << n >> \o SubSeq(out, pos + 1, Len(out))

\* the decoder from the text rest on: out is the code points so far, n the
\* code point and i the index reached, bias the bias
RECURSIVE PunyFrom(_, _, _, _, _)
PunyPlace(rest, out, n, pos, bias) ==
    PunyFrom(rest, InsertAt(out, pos, n), n, pos + 1, bias)

PunyInsert(d, out, n, oldi) ==
    IF ~d.ok THEN PunyFailure
    ELSE IF d.i \div (Len(out) + 1) > 2147483647 - n THEN PunyFailure
    ELSE PunyPlace(d.rest, out, n + d.i \div (Len(out) + 1), d.i % (Len(out) + 1),
                   Adapt(d.i - oldi, Len(out) + 1, oldi = 0))

PunyFrom(rest, out, n, i, bias) ==
    IF rest = "" THEN [ok |-> TRUE, out |-> out]
    ELSE PunyInsert(PunyDelta(rest, i, 1, 36, bias), out, n, i)

\* the text before the last hyphen is taken as it is, the text after it
\* holds the deltas
PunyAfter(s, dash) ==
    PunyFrom(Sub(s, dash + 1, Len(s)), [k \in 1..(dash - 1) |-> CodeOf(At(s, k))],
             128, 0, 72)

PunyDecode(s) == PunyAfter(s, LastOf(s, { "-" }))

\* the code points above ASCII that the IDNA mapping table accepts as they
\* are, as far as the model holds the table: Latin, Greek and Cyrillic
\* (U+0080 to U+04FF), kana, the CJK ideographs, the Hangul syllables and
\* the pictographs U+1F300 to U+1F6FF; each entry is a first and a last
\* code point and the step between the code points it stands for.  Code
\* points outside these blocks, combining marks among them, are not
\* accepted.
IdnaValid ==
    << << 161, 167, 1 >>, << 169, 169, 1 >>, << 171, 172, 1 >>,
       << 174, 174, 1 >>, << 176, 177, 1 >>, << 182, 183, 1 >>,
       << 187, 187, 1 >>, << 191, 191, 1 >>, << 215, 215, 1 >>,
       << 223, 255, 1 >>, << 257, 305, 2 >>, << 309, 309, 1 >>,
       << 311, 312, 1 >>, << 314, 318, 2 >>, << 322, 328, 2 >>,
       << 331, 375, 2 >>, << 378, 384, 2 >>, << 387, 387, 1 >>,
       << 389, 389, 1 >>, << 392, 392, 1 >>, << 396, 397, 1 >>,
       << 402, 402, 1 >>, << 405, 405, 1 >>, << 409, 411, 1 >>,
       << 414, 414, 1 >>, << 417, 421, 2 >>, << 424, 424, 1 >>,
       << 426, 427, 1 >>, << 429, 429, 1 >>, << 432, 432, 1 >>,
       << 436, 436, 1 >>, << 438, 438, 1 >>, << 441, 443, 1 >>,
       << 445, 451, 1 >>, << 462, 476, 2 >>, << 477, 495, 2 >>,
       << 501, 501, 1 >>, << 505, 563, 2 >>, << 564, 569, 1 >>,
       << 572, 572, 1 >>, << 575, 576, 1 >>, << 578, 578, 1 >>,
       << 583, 591, 2 >>, << 592, 687, 1 >>, << 697, 727, 1 >>,
       << 734, 735, 1 >>, << 741, 767, 1 >>, << 881, 887, 2 >>,
       << 891, 893, 1 >>, << 940, 943, 1 >>, << 945, 974, 1 >>,
       << 983, 1007, 2 >>, << 1011, 1011, 1 >>, << 1014, 1014, 1 >>,
       << 1016, 1016, 1 >>, << 1019, 1020, 1 >>, << 1072, 1119, 1 >>,
       << 1121, 1153, 2 >>, << 1154, 1154, 1 >>, << 1163, 1215, 2 >>,
       << 1218, 1230, 2 >>, << 1231, 1279, 2 >>, << 12353, 12438, 1 >>,
       << 12445, 12446, 1 >>, << 12448, 12542, 1 >>,
       << 19968, 40959, 1 >>, << 44032, 55203, 1 >>,
       << 127744, 128727, 1 >>, << 128733, 128748, 1 >>,
       << 128752, 128764, 1 >> >>

\* the Hebrew and Arabic letters, which are written right to left
RightToLeft == << << 1488, 1514, 1 >>, << 1568, 1610, 1 >> >>

InTable(table, cp) ==
    \E k \in 1..Len(table) :
        /\ table[k][1] <= cp /\ cp <= table[k][2]
        /\ (cp - table[k][1]) % table[k][3] = 0

\* a label with a letter written right to left begins with one, ends with
\* one or with a digit, and has such letters, digits and hyphens only
BidiOk(cps) ==
    (\E k \in 1..Len(cps) : InTable(RightToLeft, cps[k])) =>
        /\ InTable(RightToLeft, cps[1])
        /\ (InTable(RightToLeft, cps[Len(cps)]) \/ cps[Len(cps)] \in 48..57)
        /\ \A k \in 1..Len(cps) :
              InTable(RightToLeft, cps[k]) \/ cps[k] \in 48..57 \/ cps[k] = 45

\* the code points a label decodes to: the decoding succeeds, a code point
\* above ASCII is among them, and each such code point is accepted
PunyLabelOk(d) ==
    /\ d.ok
    /\ \E k \in 1..Len(d.out) : d.out[k] >= 128
    /\ \A k \in 1..Len(d.out) :
          d.out[k] < 128 \/ InTable(IdnaValid, d.out[k]) \/ InTable(RightToLeft, d.out[k])
    /\ BidiOk(d.out)

\* a label of a domain: one that begins with xn-- is Punycode
LabelOk(label) ==
    StartsWith(label, "xn--") => PunyLabelOk(PunyDecode(Sub(label, 5, Len(label))))

LabelsOk(labels) == \A k \in 1..Len(labels) : LabelOk(labels[k])

\* a domain after percent-decoding and lowercasing
DomainOk(domain) ==
    /\ domain # ""
    /\ CharsOf(domain) \cap ForbiddenHostChars = {}
    /\ Find(domain, "xn--", 1) # 0 => LabelsOk(SplitAny(domain, { "." }))
    /\ Ipv4HostOk(Ipv4Parts(domain))

\* the bytes of a percent-decoded domain
DomainBytesOk(bytes) ==
    /\ WellFormedUtf8(bytes, 1)
    /\ \A k \in 1..Len(bytes) : bytes[k] >= 32 /\ bytes[k] # 127 /\ bytes[k] # 37
    /\ DomainOk(ToLowerCase(Text([k \in 1..Len(bytes) |->
                                   IF bytes[k] >= 128 THEN "x" ELSE CharOf(bytes[k])])))

\* the host parser: TRUE when it accepts the host
HostOk(h, special) ==
    IF At(h, 1) = "["
    THEN At(h, Len(h)) = "]" /\ Ipv6Ok(Sub(h, 2, Len(h) - 1))
    ELSE IF ~special THEN CharsOf(h) \cap ForbiddenHostChars = {}
    ELSE DomainBytesOk(PercentBytes(h))

\* a port without its leading zeros
PortDigitsOk(digits) == Len(digits) <= 5 /\ DigitsValue(10, digits) <= 65535

PortOk(port) ==
    /\ CharsOf(port) \subseteq CharsOf(Digits)
    /\ PortDigitsOk(Sub(port, RunOf(port, 1, { "0" }) + 1, Len(port)))

\* the position of the first colon outside brackets, one past the end when
\* there is none
PortColon(hostport) ==
    Smallest({ Len(hostport) + 1 } \cup
             { p \in 1..Len(hostport) :
                 /\ At(hostport, p) = ":"
                 /\ At(hostport, LastOf(Sub(hostport, 1, p - 1), { "[", "]" })) # "[" })

\* a host and a port separated at position colon; an empty host is allowed
\* only without credentials and port in a URL that is not special
HostPortOk(hostport, colon, credentials, special) ==
    IF colon = 1 \/ hostport = ""
    THEN colon > Len(hostport) /\ ~special /\ ~credentials
    ELSE /\ HostOk(Sub(hostport, 1, colon - 1), special)
         /\ PortOk(Sub(hostport, colon + 1, Len(hostport)))

CredentialsStripped(hostport, credentials, special) ==
    HostPortOk(hostport, PortColon(hostport), credentials, special)

\* the authority: credentials up to the last @, the host, and a port after
\* the first colon outside brackets
AuthorityOk(auth, special) ==
    CredentialsStripped(Sub(auth, LastOf(auth, { "@" }) + 1, Len(auth)),
                        "@" \in CharsOf(auth), special)

IsSingleDot(seg) == ToLowerCase(seg) \in { ".", "%2e" }

IsDoubleDot(seg) == ToLowerCase(seg) \in { "..", ".%2e", "%2e.", "%2e%2e" }

\* a Windows drive letter, and one written with a colon
IsDrive(seg) == Len(seg) = 2 /\ At(seg, 1) \in AsciiAlpha /\ At(seg, 2) \in { ":", "|" }

\* a text that begins with a drive letter which a slash follows, or nothing
BeginsWithDrive(view) ==
    IsDrive(Sub(view, 1, 2)) /\ At(view, 3) \in { "", "/", "\\", "?", "#" }

IsNormalDrive(seg) == IsDrive(seg) /\ At(seg, 2) = ":"

\* the characters of a path that are written as %XX
PathEncodeSet == { " ", "\"", "<", ">", "{", "}", "\f" }

EncodePath(seg) ==
    Text([p \in 1..Len(seg) |->
            IF At(seg, p) \in PathEncodeSet THEN PercentEncoded(At(seg, p)) ELSE At(seg, p)])

\* the parser takes a path as it stands when nothing has been put before
\* it, no character of it is to be encoded, it has no backslash and no
\* percent sign, it is not a file path that begins with a drive letter,
\* and either it has no dot, or it does not begin with a dot and the first
\* "/." in it begins an ordinary segment
TrivialPath(view, scheme, path) ==
    /\ path = << >>
    /\ CharsOf(view) \cap (PathEncodeSet \cup { "\\", "%" }) = {}
    /\ ~(scheme = "file" /\ BeginsWithDrive(view))
    /\ "." \in CharsOf(view) =>
          /\ At(view, 1) # "."
          /\ Find(view, "/.", 1) # 0 => At(view, Find(view, "/.", 1) + 2) \notin { "", ".", "/" }

\* a double-dot segment removes the last segment of the path, but not the
\* drive letter of a file path
Shortens(scheme, path) ==
    path # << >> /\ ~(scheme = "file" /\ Len(path) = 1 /\ IsNormalDrive(path[1]))

\* the path state from segment k on: dot segments are dropped or remove the
\* segment before them, the other segments are encoded and appended; a
\* last double-dot segment leaves an empty last segment when it has removed
\* one or the scheme is special
RECURSIVE PathFrom(_, _, _, _)
PathFrom(segs, k, scheme, path) ==
    IF k > Len(segs) THEN path
    ELSE PathFrom(segs, k + 1, scheme,
           IF IsDoubleDot(segs[k])
           THEN (IF Shortens(scheme, path) THEN SubSeq(path, 1, Len(path) - 1) ELSE path)
                \o (IF k = Len(segs) /\ (Shortens(scheme, path) \/ scheme \in SpecialSchemes)
                    THEN << "" >> ELSE << >>)
           ELSE IF IsSingleDot(segs[k])
           THEN path \o (IF k = Len(segs) THEN << "" >> ELSE << >>)
           ELSE IF scheme = "file" /\ path = << >> /\ IsDrive(segs[k])
           THEN << At(segs[k], 1) \o ":" >>
           ELSE path \o << EncodePath(segs[k]) >>)

\* the characters that separate the segments of a path
Slashes(scheme) == IF scheme \in SpecialSchemes THEN { "/", "\\" } ELSE { "/" }

\* the path state on the text that follows the leading slash, after the
\* segments already in the path
ParsePath(view, scheme, path) ==
    IF TrivialPath(view, scheme, path) THEN SplitAny(view, { "/" })
    ELSE PathFrom(SplitAny(view, Slashes(scheme)), 1, scheme, path)

\* what the states before the path state leave to do: the authority or the
\* file host to check (check says which, "none" for neither), the text of
\* the path (null: the path stays as it is), the segments already in the
\* path, the opaque path and the query
Pending(scheme, check, host, view, path, opaque, query) ==
    [ok |-> TRUE, scheme |-> scheme, check |-> check, host |-> host,
     view |-> view, path |-> path, opaque |-> opaque, query |-> query]

DoubleSlash(s) == At(s, 1) \in { "/", "\\" } /\ At(s, 2) \in { "/", "\\" }

\* the text after its leading slashes
SkipSlashes(s) == Sub(s, RunOf(s, 1, { "/", "\\" }) + 1, Len(s))

\* the authority state and what follows it: a URL that is not special may
\* end with the authority and then has no path
AfterAuthority(rest, scheme, query) ==
    Pending(scheme, "authority", BeforeAny(rest, Slashes(scheme)),
            IF FromAny(rest, Slashes(scheme)) = "" /\ scheme \notin SpecialSchemes
            THEN JNull
            ELSE JStr(Sub(FromAny(rest, Slashes(scheme)), 2, Len(rest))),
            << >>, JNull, query)

\* the file states
ParseFile(rest, query) ==
    IF DoubleSlash(rest)
    THEN IF IsDrive(BeforeAny(Sub(rest, 3, Len(rest)), { "/", "\\" }))
         THEN Pending("file", "none", "", JStr(Sub(rest, 3, Len(rest))), << >>, JNull, query)
         ELSE Pending("file", "host", BeforeAny(Sub(rest, 3, Len(rest)), { "/", "\\" }),
                      JStr(Sub(FromAny(Sub(rest, 3, Len(rest)), { "/", "\\" }), 2, Len(rest))),
                      << >>, JNull, query)
    ELSE Pending("file", "none", "",
                 JStr(IF At(rest, 1) \in { "/", "\\" } THEN Sub(rest, 2, Len(rest)) ELSE rest),
                 << >>, JNull, query)

\* the relative states, for a base with a special scheme: p is the text
\* before the question mark
Relative(p, query, base) ==
    IF p = ""
    THEN Pending(base.scheme, "none", "", JNull, base.path, JNull,
                 IF query = JNull THEN base.query ELSE query)
    ELSE IF DoubleSlash(p) THEN AfterAuthority(SkipSlashes(p), base.scheme, query)
    ELSE IF At(p, 1) \in { "/", "\\" }
    THEN Pending(base.scheme, "none", "", JStr(Sub(p, 2, Len(p))), << >>, JNull, query)
    ELSE Pending(base.scheme, "none", "", JStr(p),
                 SubSeq(base.path, 1, Len(base.path) - 1), JNull, query)

\* the states after a scheme: rest is the text after its colon
AfterScheme(scheme, rest, query, base) ==
    IF scheme = "file" THEN ParseFile(rest, query)
    ELSE IF scheme \in SpecialSchemes
    THEN (IF base.ok /\ base.scheme = scheme /\ ~DoubleSlash(rest)
          THEN Relative(rest, query, base)
          ELSE AfterAuthority(SkipSlashes(rest), scheme, query))
    ELSE IF StartsWith(rest, "//")
    THEN AfterAuthority(Sub(rest, 3, Len(rest)), scheme, query)
    ELSE IF StartsWith(rest, "/")
    THEN Pending(scheme, "none", "", JStr(Sub(rest, 2, Len(rest))), << >>, JNull, query)
    ELSE Pending(scheme, "none", "", JNull, << >>, JStr(rest), query)

\* the states up to the path state: p is the text before the question
\* mark, colon the position that ends its scheme (0: it has none); base is
\* a parsed URL, or UrlFailure when there is none
BeforePath(p, colon, query, base) ==
    IF colon = 0
    THEN (IF base.ok THEN Relative(p, query, base) ELSE UrlFailure)
    ELSE AfterScheme(ToLowerCase(Sub(p, 1, colon - 1)), Sub(p, colon + 1, Len(p)),
                     query, base)

\* the host is checked and the path state runs
Finish(pending) ==
    IF ~pending.ok THEN UrlFailure
    ELSE IF /\ pending.check = "authority"
            /\ ~AuthorityOk(pending.host, pending.scheme \in SpecialSchemes)
    THEN UrlFailure
    ELSE IF pending.check = "host" /\ pending.host # "" /\ ~HostOk(pending.host, TRUE)
    THEN UrlFailure
    ELSE Url(pending.scheme,
             IF pending.view = JNull THEN pending.path
             ELSE ParsePath(pending.view.v, pending.scheme, pending.path),
             pending.opaque, pending.query)

\* the parser on the text before the fragment
ParseQuery(s, base) ==
    Finish(BeforePath(BeforeAny(s, { "?" }), SchemeEnd(BeforeAny(s, { "?" })),
                      IF "?" \in CharsOf(s)
                      THEN JStr(Sub(FromAny(s, { "?" }), 2, Len(s))) ELSE JNull,
                      base))

\* the URL parser: the fragment is cut off, then the query
ParseUrl(input, base) == ParseQuery(BeforeAny(Preprocess(input), { "#" }), base)

\* the parser on a base: without a base that parses, it throws
OnBase(url, base) == IF base.ok THEN ParseUrl(url, base) ELSE UrlFailure

\* new URL(req.url || '', base): ok is FALSE when it throws a TypeError.
\* The base is the template literal of line 76, in which a request without
\* a Host header leaves the text "undefined".
NewURL(url, host) ==
    OnBase(url, ParseUrl("http://" \o (IF host = Undefined THEN "undefined" ELSE host.v),
                         UrlFailure))

\* url.pathname
RECURSIVE JoinSlash(_)
JoinSlash(segs) ==
    IF Len(segs) = 0 THEN "" ELSE "/" \o Head(segs) \o JoinSlash(Tail(segs))

pathname(url) == IF url.opaque # JNull THEN url.opaque.v ELSE JoinSlash(url.path)

\* a name or a value of the query: plus signs are spaces, %XX is decoded
\* and the bytes are read as UTF-8; a text without either is left as it is
FormDecode(s) ==
    IF CharsOf(s) \cap { "+", "%" } = {} THEN s
    ELSE Utf8Text(PercentBytes(Text([p \in 1..Len(s) |->
                                   IF At(s, p) = "+" THEN " " ELSE At(s, p)])), 1)

\* the value of the pair at index k, null past the last pair
ValueAt(pairs, k) ==
    IF k > Len(pairs) THEN JNull
    ELSE JStr(FormDecode(Sub(FromAny(pairs[k], { "=" }), 2, Len(pairs[k]))))

\* URLSearchParams.get on the pairs of the query: the value of the first
\* pair with that name, null when there is none
GetParam(pairs, name) ==
    ValueAt(pairs,
            Smallest({ Len(pairs) + 1 } \cup
                     { k \in 1..Len(pairs) :
                         pairs[k] # "" /\ FormDecode(BeforeAny(pairs[k], { "=" })) = name }))

\* url.searchParams.get(name)
searchParamsGet(url, name) ==
    IF url.query = JNull THEN JNull ELSE GetParam(SplitAny(url.query.v, { "&" }), name)

(***************************************************************************)
(* ExportSettings built from a request.                                    *)
(***************************************************************************)
\* HttpExportServer.handleExportGet, the settings literal
handleExportGetSettings(url) ==
    [exportPath |-> OrElse(searchParamsGet(url, "exportPath"), DefaultExportPath),
     includeAttachments |-> StrictEq(searchParamsGet(url, "includeAttachments"), JStr("true")),
     renderDiagrams |-> StrictEq(searchParamsGet(url, "renderDiagrams"), JStr("true")),
     format |-> "asciidoc"]

\* parseExportSettings on truthiness instead of ===: a faulty variant
parseExportSettingsLoose(data) ==
    [exportPath |-> OrElse(Prop(data, "exportPath"), DefaultExportPath),
     includeAttachments |-> Truthy(Prop(data, "includeAttachments")),
     renderDiagrams |-> Truthy(Prop(data, "renderDiagrams")),
     format |-> "asciidoc"]

\* HttpExportServer.parseExportSettings (defined when CanReadProp(data))
parseExportSettings(data) ==
    [exportPath |-> OrElse(Prop(data, "exportPath"), DefaultExportPath),
     includeAttachments |-> ~StrictEq(Prop(data, "includeAttachments"), JBool(FALSE)),
     renderDiagrams |-> StrictEq(Prop(data, "renderDiagrams"), JBool(TRUE)),
     format |-> "asciidoc"]

(***************************************************************************)
(* The vault of the host application.  app.vault.getFiles() returns the    *)
(* TFile objects in this order; data is the file's content on disk.        *)
(***************************************************************************)
TFile(path, name, extension, data) ==
    [path |-> path, name |-> name, extension |-> extension, data |-> data]

Vaults ==
    { << TFile("notes/a.md", "a.md", "md", << 35, 32, 84 >>),
         TFile("notes/b.md", "b.md", "md", << 120 >>) >>,
      << TFile("a.md", "a.md", "md", << 120 >>),
         TFile("img.png", "img.png", "png", << 137, 80, 78, 71, 255 >>) >>,
      << TFile("index.md", "index.md", "md", << 120 >>),
         TFile("t.txt", "t.txt", "txt", << 104, 105 >>) >>,
      << TFile("x.md", "x.md", "md", << 120 >>),
         TFile("x.adoc", "x.adoc", "adoc", << 111, 107 >>) >>,
      << TFile("e.md", "e.md", "md", << >>) >>,
      << TFile("notes/a.md", "a.md", "md", << 120 >>),
         TFile("notes/pic/i.png", "i.png", "png", << 137, 80 >>) >> }

\* the vaults exported by overlapping requests
OverlapVaults ==
    { << TFile("a.md", "a.md", "md", << 120 >>),
         TFile("img.png", "img.png", "png", << 137, 80, 78, 71, 255 >>) >>,
      << TFile("notes/a.md", "a.md", "md", << 35, 32, 84 >>),
         TFile("notes/b.md", "b.md", "md", << 120 >>) >> }

(***************************************************************************)
(* The requests a client sends.                                            *)
(***************************************************************************)
\* a request with the Host header a client sends by default
DefaultHost == JStr("localhost:8080")

\* a request: req.method, req.url, req.headers.host (undefined when the
\* request has no Host header) and the body
RequestTo(host, method, url, body) ==
    [host |-> host, method |-> method, url |-> url, body |-> body]

Request(method, url, body) == RequestTo(DefaultHost, method, url, body)

Requests ==
    { Request("OPTIONS", "/export", ""),
      Request("GET", "/health", ""),
      Request("POST", "/health", "{}"),
      Request("PUT", "/export", "{}"),
      Request("GET", "/export/", ""),
      Request("GET", "//", ""),
      Request("GET", "/a/../export?includeAttachments=true", ""),
      Request("GET", "/export?includeAttachments=false", ""),
      Request("GET", "/export", ""),
      Request("GET", "//host/export?includeAttachments=1&renderDiagrams=true&exportPath=out", ""),
      Request("GET", "/export#frag", ""),
      Request("GET", "/a/%2e%2E/export?include%41ttachments=%74rue&exportPath=a+b ", ""),
      Request("GET", "/\\host/export?includeAttachments=false#x", ""),
      Request("GET", "///export", ""),
      Request("GET", "//host:99999/export", ""),
      Request("GET", "//a b/export", ""),
      Request("GET", "/a/.b./..", ""),
      Request("GET", "/health#", ""),
      Request("GET", "http://other/health", ""),
      Request("GET", "*", ""),
      Request("GET", "/export?exportPath=%C3%A9%F0%9F%98%80%FF", ""),
      Request("GET", "//xn--a/health", ""),
      Request("GET", "//xn--mnchen-3ya/health", ""),
      Request("GET", "x:/..", ""),
      Request("GET", "file:///c|/export", ""),
      RequestTo(JStr("xn--"), "GET", "/export", ""),
      RequestTo(Undefined, "GET", "/health", ""),
      RequestTo(JStr(""), "GET", "/health", ""),
      RequestTo(JStr("h:99999"), "GET", "/export", ""),
      RequestTo(JStr("a b"), "POST", "/export", "{}") }
    \cup { Request("POST", "/export", b) : b \in Bodies }

\* the requests sent while other requests are being handled
OverlapRequests ==
    { Request("GET", "/a/../export?includeAttachments=true", ""),
      Request("GET", "/export?includeAttachments=false", ""),
      Request("GET", "/health", ""),
      Request("POST", "/export", "{}") }

(***************************************************************************)
(* State.                                                                  *)
(***************************************************************************)
VARIABLES
    vault,          \* the files of the vault, in getFiles() order
    isRunning,      \* HttpExportServer.isRunning
    server,         \* HttpExportServer.server: 0 (unset) or a server id
    servers,        \* the http.Server objects created so far: id -> state
    calls,          \* the start()/stop() calls made so far and their outcome
    exportSettings, \* VaultExporter.exportSettings of the server's exporter
    exportedFiles,  \* VaultExporter.exportedFiles of the server's exporter
    reqs,           \* the requests being handled, in order of arrival
    fnIn,           \* the argument of a function applied on its own
    fnOut,          \* its result
    storage,        \* the mkdir and write calls made on the storage so far
    runs            \* the exportVault calls made on the plugin's own VaultExporter

vars == << vault, isRunning, server, servers, calls, exportSettings,
           exportedFiles, reqs, fnIn, fnOut, storage, runs >>

fnVars == << fnIn, fnOut >>
fsVars == << storage, runs >>
NoValue == [t |-> "none"]

lifecycleVars == << isRunning, server, servers, calls >>
exporterVars == << exportSettings, exportedFiles >>

NoSettings == [format |-> "unset"]

(***************************************************************************)
(* ServerResponse.                                                         *)
(***************************************************************************)
\* a fresh response: nothing sent
NewResponse ==
    [headersSent |-> FALSE,
     statusLines |-> << >>,   \* the status codes written by writeHead
     kind |-> "none",         \* what the body carries
     pack |-> << >>,          \* the calls made on the tar pack piped to it
     ended |-> FALSE,
     raised |-> "none"]       \* the error a call on the response has thrown

\* res.writeHead: on a response whose head has been written it throws and
\* leaves the status line as it is
writeHead(res, statusCode, kind) ==
    IF res.headersSent THEN [res EXCEPT !.raised = "ERR_HTTP_HEADERS_SENT"]
    ELSE [res EXCEPT !.headersSent = TRUE,
                     !.statusLines = @ \o << statusCode >>,
                     !.kind = kind]

\* HttpExportServer.sendError
sendError(res, statusCode) ==
    IF ~res.headersSent
    THEN [writeHead(res, statusCode, "error") EXCEPT !.ended = TRUE]
    ELSE res

(***************************************************************************)
(* One request being handled: the request, the locals of the suspended     *)
(* async functions, the response, and what has happened to it.             *)
(***************************************************************************)
NewRequest(rq, srv) ==
    [srv |-> srv,              \* the server whose connection it arrived on
     host |-> rq.host,
     method |-> rq.method, url |-> rq.url, body |-> rq.body,
     pc |-> "start",
     settings |-> NoSettings,   \* the settings built from the request
     ran |-> FALSE,             \* exportVaultToMemory has been called
     allFiles |-> << >>,        \* getVaultStructure: getFiles() result
     i |-> 0,                   \* getVaultStructure: loop position
     files |-> << >>,           \* getVaultStructure: VaultFile[] built
     k |-> 0,                   \* exportMarkdownFilesAsAsciiDocToMemory: position
     aFiles |-> << >>,          \* copyAllAttachmentsToMemory: getFiles()
     j |-> 0,                   \* copyAllAttachmentsToMemory: position
     exportData |-> << >>,      \* ExportData.files returned to the server
     returned |-> FALSE,        \* exportVaultToMemory has returned
     threw |-> "none",          \* where an exception was raised
     socket |-> "open",         \* the connection, "destroyed" when the client is gone
     res |-> NewResponse]

(***************************************************************************)
(* VaultExporter, in-memory export.                                        *)
(***************************************************************************)
\* index of the first occurrence of sub in s at or after i, 0 when absent
RECURSIVE FindSub(_, _, _)
FindSub(s, sub, i) ==
    IF i + Len(sub) - 1 > Len(s) THEN 0
    ELSE IF SubSeq(s, i, i + Len(sub) - 1) = sub THEN i
    ELSE FindSub(s, sub, i + 1)

\* s.replace(sub, by) with a string pattern: the first occurrence only
ReplaceFirst(s, sub, by) ==
    IF FindSub(s, sub, 1) = 0 THEN s
    ELSE SubSeq(s, 1, FindSub(s, sub, 1) - 1) \o by
         \o SubSeq(s, FindSub(s, sub, 1) + Len(sub), Len(s))

\* !file.content
NoContent(file) == file.content.t = "undef" \/ file.content.v = << >>

\* getVaultStructure, the VaultFile built for a TFile (content added after
\* the read for markdown files)
VaultFile(file, content) ==
    [path |-> file.path, name |-> file.name, extension |-> file.extension,
     isMarkdown |-> (file.extension = "md"), content |-> content]

\* the result of convertMarkdownToAsciiDoc(content, file) in an export: the
\* converted text is kept as a term over the source text and the file name,
\* the two inputs it is computed from (the conversion itself is
\* convertMarkdownToAsciiDoc below)
AsciiDocOf(content, file) ==
    [t |-> "adoc", adocOf |-> content.v, title |-> ReplaceFirst(file.name, ".md", "")]

\* exportMarkdownFileAsAsciiDocToMemory: the entries pushed for one file
exportMarkdownFileAsAsciiDocToMemory(file) ==
    IF NoContent(file) THEN << >>
    ELSE << [path |-> ReplaceMdExt(file.path),
             content |-> AsciiDocOf(file.content, file),
             type |-> "asciidoc"] >>

\* generateAsciiDocFileList: one xref line per markdown file
RECURSIVE generateAsciiDocFileList(_)
generateAsciiDocFileList(files) ==
    IF Len(files) = 0 THEN << >>
    ELSE (IF Head(files).isMarkdown
          THEN << [xref |-> ReplaceMdExt(Head(files).path),
                   title |-> ReplaceFirst(Head(files).name, ".md", "")] >>
          ELSE << >>)
         \o generateAsciiDocFileList(Tail(files))

\* generateIndexAsciiDocToMemory: the entry pushed
generateIndexAsciiDocToMemory(files) ==
    [path |-> "index.adoc",
     content |-> [t |-> "index", indexOf |-> generateAsciiDocFileList(files)],
     type |-> "asciidoc"]

\* copyAllAttachmentsToMemory: the entry pushed for one file once its read
\* has resolved with the bytes on disk
AssetEntry(file) ==
    [path |-> file.path,
     content |-> IF isBinaryFile(file.path) THEN JStr(Base64Encode(file.data))
                 ELSE JStr(file.data),
     type |-> "asset"]

(***************************************************************************)
(* HttpExportServer.performExportAndStream, lines 146-181: the archive     *)
(* streamer.  f = 0: no exception; f = k > 0: adding the k-th entry raises *)
(* an exception (transport failure), caught by the catch clause.           *)
(***************************************************************************)
\* every content the exporter puts into ExportData is a string
TypeofString(content) == TRUE

\* the block written for a string: its characters as bytes (the converted
\* text of a document stays the term it is)
StringBlock(content) ==
    IF content.t = "str" THEN [bytes |-> content.v] ELSE content

\* the pack.entry call made for one file of the bundle
TarEntry(file) ==
    [op |-> "entry", name |-> file.path,
     data |-> IF file.type = "asset" /\ TypeofString(file.content)
              THEN [bytes |-> Base64Decode(file.content.v)]
              ELSE StringBlock(file.content)]

Finalize == [op |-> "finalize"]

\* the streamer with a catch clause that ends the response with the error
\* body whatever has been sent: a faulty variant, for comparison
StreamUnguardedCatch(w, f) ==
    LET files == w.rq.exportData
        failed == f # 0 /\ f <= Len(files)
        k == IF failed THEN f - 1 ELSE Len(files)
        res1 == writeHead(w.rq.res, 200, "tar")
        res2 == [res1 EXCEPT
                   !.pack = [x \in 1..k |-> TarEntry(files[x])]
                            \o (IF failed THEN << >> ELSE << Finalize >>),
                   !.ended = ~failed /\ w.rq.socket = "open"]
        res3 == IF failed THEN [res2 EXCEPT !.kind = "error", !.ended = TRUE] ELSE res2
    IN  [w EXCEPT !.rq = [@ EXCEPT !.res = res3,
                                   !.threw = IF failed THEN "stream" ELSE @,
                                   !.pc = "done"]]

\* the streamer finalizing before it adds the entries: a faulty variant
StreamFinalizeFirst(w, f) ==
    LET files == w.rq.exportData
        res1 == writeHead(w.rq.res, 200, "tar")
        res2 == [res1 EXCEPT
                   !.pack = << Finalize >>
                            \o [x \in 1..Len(files) |-> TarEntry(files[x])],
                   !.ended = w.rq.socket = "open"]
    IN  [w EXCEPT !.rq = [@ EXCEPT !.res = res2, !.pc = "done"]]

\* lines 146-181: head, pipe, one entry per file, finalize; the catch
\* clause.  The finalized pack ends the response it is piped to, unless the
\* client has destroyed the connection.
Stream(w, f) ==
    LET files == w.rq.exportData
        failed == f # 0 /\ f <= Len(files)
        k == IF failed THEN f - 1 ELSE Len(files)
        res1 == writeHead(w.rq.res, 200, "tar")
        res2 == [res1 EXCEPT
                   !.pack = [x \in 1..k |-> TarEntry(files[x])]
                            \o (IF failed THEN << >> ELSE << Finalize >>),
                   !.ended = ~failed /\ w.rq.socket = "open"]
        res3 == IF failed /\ ~res2.headersSent THEN sendError(res2, 500) ELSE res2
    IN  [w EXCEPT !.rq = [@ EXCEPT !.res = res3,
                                   !.threw = IF failed THEN "stream" ELSE @,
                                   !.pc = "done"]]

(***************************************************************************)
(* exportVaultToMemory, one step at a time.  w is the request with the     *)
(* exporter's two fields: [rq, es, ef].  A step runs from the point where  *)
(* the request was suspended to the next await at which another request    *)
(* can run.  pc names the await the request is suspended in:               *)
(*   "scan"        getVaultStructure awaits vault.read                     *)
(*   "structure"   exportVaultToMemory awaits getVaultStructure, which has *)
(*                 returned                                                *)
(*   "codeBlocks"  convertMarkdownToAsciiDoc awaits convertCodeBlocks      *)
(*   "convert"     exportMarkdownFileAsAsciiDocToMemory awaits the         *)
(*                 conversion, which has returned                          *)
(*   "document"    exportMarkdownFilesAsAsciiDocToMemory awaits the export *)
(*                 of one file, which has pushed its entry                 *)
(*   "documents"   exportAsAsciiDocToMemory awaits the export of the files *)
(*   "assets"      copyAllAttachmentsToMemory awaits a read                *)
(*   "index"       exportAsAsciiDocToMemory awaits the copy of the assets  *)
(*   "bundle"      exportVaultToMemory awaits exportAsAsciiDocToMemory,    *)
(*                 whose index has been pushed                             *)
(*   "stream"      performExportAndStream awaits exportVaultToMemory,      *)
(*                 which has returned the bundle                           *)
(*   "failed"      the same, and exportVaultToMemory has rejected          *)
(* A continuation that changes nothing (the return of a method whose last  *)
(* statement was awaited, the skip of a file without content) is taken     *)
(* together with the one that follows it.                                  *)
(***************************************************************************)
\* the request is suspended in an await that the event loop resumes without
\* waiting for the vault or the network
Runnable(rq) ==
    rq.pc \in { "structure", "codeBlocks", "convert", "document", "documents",
                "index", "bundle", "stream", "failed" }

\* generateIndexAsciiDocToMemory writing its index to the target as the
\* filesystem export does: a faulty variant, for comparison
IndexToMemoryWriting(w) ==
    [w EXCEPT !.ef = @ \o << generateIndexAsciiDocToMemory(w.rq.files) >>,
              !.io = Append(@, [call |-> 0, by |-> "generateIndexAsciiDocToMemory",
                                op |-> "write", path |-> "index.adoc",
                                ok |-> TRUE]),
              !.rq = [@ EXCEPT !.pc = "bundle"]]

\* generateIndexAsciiDocToMemory: the index entry is pushed, and
\* exportAsAsciiDocToMemory returns
IndexToMemory(w) ==
    [w EXCEPT !.ef = @ \o << generateIndexAsciiDocToMemory(w.rq.files) >>,
              !.rq = [@ EXCEPT !.pc = "bundle"]]

\* exportVaultToMemory, lines 145-160: the bundle is built from the entry
\* list as it is now and returned
ReturnBundle(w) ==
    [w EXCEPT !.rq = [@ EXCEPT !.exportData = w.ef, !.returned = TRUE,
                               !.pc = "stream"]]

\* copyAllAttachmentsToMemory from position j to the next read
RECURSIVE RunAssets(_)
RunAssets(w) ==
    IF w.rq.j > Len(w.rq.aFiles) THEN [w EXCEPT !.rq = [@ EXCEPT !.pc = "index"]]
    ELSE IF EndsWith(w.rq.aFiles[w.rq.j].path, ".md")
    THEN RunAssets([w EXCEPT !.rq = [@ EXCEPT !.j = @ + 1]])
    ELSE [w EXCEPT !.rq = [@ EXCEPT !.pc = "assets"]]

\* exportAsAsciiDocToMemory after the documents, lines 209-215: the flag of
\* the exporter's settings is read; the assets follow, or the index
exportAsAsciiDocToMemory(w) ==
    IF w.es.includeAttachments
    THEN RunAssets([w EXCEPT !.rq = [@ EXCEPT !.aFiles = vault, !.j = 1]])
    ELSE IndexToMemory(w)

\* exportMarkdownFilesAsAsciiDocToMemory from position k to the next
\* document that has content: its conversion is called and runs up to the
\* await of convertCodeBlocks
RunDocuments(w) ==
    LET ks == { x \in w.rq.k..Len(w.rq.files) :
                  w.rq.files[x].isMarkdown /\ ~NoContent(w.rq.files[x]) }
    IN  IF ks = {} THEN [w EXCEPT !.rq = [@ EXCEPT !.pc = "documents"]]
        ELSE [w EXCEPT !.rq = [@ EXCEPT
                 !.k = CHOOSE x \in ks : \A y \in ks : x <= y,
                 !.pc = "codeBlocks"]]

\* exportMarkdownFileAsAsciiDocToMemory after the conversion: the entry of
\* the document at position k is pushed
DocumentToMemory(w) ==
    [w EXCEPT
        !.ef = @ \o exportMarkdownFileAsAsciiDocToMemory(w.rq.files[w.rq.k]),
        !.rq = [@ EXCEPT !.pc = "document"]]

\* getVaultStructure from position i to the next read, or to its return
RECURSIVE RunScan(_)
RunScan(w) ==
    IF w.rq.i > Len(w.rq.allFiles) THEN [w EXCEPT !.rq = [@ EXCEPT !.pc = "structure"]]
    ELSE IF w.rq.allFiles[w.rq.i].extension = "md"
    THEN [w EXCEPT !.rq = [@ EXCEPT !.pc = "scan"]]
    ELSE RunScan([w EXCEPT !.rq = [@ EXCEPT
                    !.files = @ \o << VaultFile(w.rq.allFiles[w.rq.i], Undefined) >>,
                    !.i = @ + 1]])

\* performExportAndStream up to the first suspension of exportVaultToMemory
performExportAndStream(w, settings) ==
    RunScan([w EXCEPT !.es = settings, !.ef = << >>,
                      !.rq = [@ EXCEPT !.settings = settings, !.ran = TRUE,
                                       !.allFiles = vault, !.i = 1,
                                       !.files = << >>]])

\* the catch clause of performExportAndStream for an exception raised by
\* exportVaultToMemory, lines 176-181
ExportFailed(w) ==
    [w EXCEPT !.rq = [@ EXCEPT !.threw = "export", !.pc = "done",
                               !.res = IF ~@.headersSent THEN sendError(@, 500) ELSE @]]

(***************************************************************************)
(* HttpExportServer.handleRequest, run up to its first suspension.         *)
(***************************************************************************)
handleHealthCheck(res) ==
    [writeHead(res, 200, "health") EXCEPT !.ended = TRUE]

\* routing on the path alone: a faulty variant, for comparison
RouteIgnoringMethod(method, path) ==
    IF path = "/health" THEN "health"
    ELSE IF path = "/export" THEN (IF method = "POST" THEN "exportPost" ELSE "exportGet")
    ELSE "notFound"

\* the route taken for a request whose URL parses
Route(method, path) ==
    IF method = "GET" /\ path = "/health" THEN "health"
    ELSE IF method = "POST" /\ path = "/export" THEN "exportPost"
    ELSE IF method = "GET" /\ path = "/export" THEN "exportGet"
    ELSE "notFound"

Done(w, res) == [w EXCEPT !.rq = [@ EXCEPT !.res = res, !.pc = "done"]]

\* handleRequest from the routing on: url is the result of new URL, route
\* the branch that the method and url.pathname select
Dispatch(w, url, route) ==
    CASE route = "health" -> Done(w, handleHealthCheck(w.rq.res))
      [] route = "exportPost" -> [w EXCEPT !.rq = [@ EXCEPT !.pc = "body"]]
      [] route = "exportGet" -> performExportAndStream(w, handleExportGetSettings(url))
      [] OTHER -> Done(w, sendError(w.rq.res, 404))

\* handleRequest after new URL: a TypeError is caught and answered 500
Routed(w, url) ==
    IF ~url.ok
    THEN Done([w EXCEPT !.rq = [@ EXCEPT !.threw = "url"]], sendError(w.rq.res, 500))
    ELSE Dispatch(w, url, Route(w.rq.method, pathname(url)))

handleRequest(w) ==
    IF w.rq.method = "OPTIONS"
    THEN Done(w, [writeHead(w.rq.res, 200, "empty") EXCEPT !.ended = TRUE])
    ELSE Routed(w, NewURL(w.rq.url, w.rq.host))

\* handleExport without its try/catch around JSON.parse: a faulty variant
handleExportNoCatch(w) ==
    performExportAndStream(w,
        parseExportSettings(IF JSONParse(w.rq.body).ok /\ CanReadProp(JSONParse(w.rq.body).value)
                            THEN JSONParse(w.rq.body).value ELSE JObj(<< >>)))

\* handleExport after readRequestBody has resolved with the body
handleExport(w) ==
    IF ~JSONParse(w.rq.body).ok \/ ~CanReadProp(JSONParse(w.rq.body).value)
    THEN Done(w, sendError(w.rq.res, 400))
    ELSE performExportAndStream(w, parseExportSettings(JSONParse(w.rq.body).value))

(***************************************************************************)
(* Actions of the request handling.                                        *)
(***************************************************************************)
World(r) ==
    [rq |-> reqs[r], es |-> exportSettings, ef |-> exportedFiles, io |-> storage]

Commit(r, w) ==
    /\ reqs' = [reqs EXCEPT ![r] = w.rq]
    /\ exportSettings' = w.es
    /\ exportedFiles' = w.ef
    /\ storage' = w.io
    /\ UNCHANGED << vault, lifecycleVars, fnVars, runs >>

FaultPoints == 0 .. MaxFaultAt

\* a finished request leaves the server before anything else happens
NoneDone == \A r \in 1..Len(reqs) : reqs[r].pc # "done"

\* no continuation is waiting in the event loop's queue of resumed awaits:
\* the event loop takes the next event of the network
NoneRunnable == \A r \in 1..Len(reqs) : ~Runnable(reqs[r])

\* the servers that have connections: a listening server, and a server that
\* close() has unbound and whose close callback has not fired, which still
\* handles the requests of the connections it accepted before
Connected == { s \in 1..Len(servers) : servers[s] \in {"listening", "closing"} }

\* a request of the set arrives on a connection of server s, which is
\* handling fewer than limit requests
Receive(limit, requests) ==
    /\ Len(reqs) < limit
    /\ NoneDone
    /\ NoneRunnable
    /\ \E s \in Connected, rq \in requests :
         LET w == handleRequest([rq |-> NewRequest(rq, s), es |-> exportSettings,
                                 ef |-> exportedFiles, io |-> storage])
         IN  /\ reqs' = Append(reqs, w.rq)
             /\ exportSettings' = w.es
             /\ exportedFiles' = w.ef
             /\ storage' = w.io
    /\ UNCHANGED << vault, lifecycleVars, fnVars, runs >>

\* a client that waits for each response before it sends the next request
ReceiveNext == Receive(1, Requests)

\* clients that send requests while others are being handled
ReceiveOverlapping == Receive(MaxInFlight, OverlapRequests)

\* a client that waits for each response, while the plugin exports
ReceiveExporting == Receive(1, OverlapRequests)

\* the response of a finished request has been handed over: the server
\* keeps nothing of the request
Close(r) ==
    /\ reqs[r].pc = "done"
    /\ reqs' = [k \in 1..(Len(reqs) - 1) |-> IF k < r THEN reqs[k] ELSE reqs[k + 1]]
    /\ UNCHANGED << vault, lifecycleVars, exporterVars, fnVars, fsVars >>

\* readRequestBody resolves
BodyEnd(r) ==
    /\ NoneDone
    /\ NoneRunnable
    /\ reqs[r].pc = "body"
    /\ reqs[r].socket = "open"
    /\ Commit(r, handleExport(World(r)))

\* readRequestBody rejects: handleRequest's catch clause answers
BodyError(r) ==
    /\ NoneDone
    /\ NoneRunnable
    /\ reqs[r].pc = "body"
    /\ Commit(r, Done([World(r) EXCEPT !.rq = [@ EXCEPT !.threw = "body"]],
                      sendError(reqs[r].res, 500)))

\* getVaultStructure: vault.read of a markdown file resolves; the file is
\* added and the next read is awaited, or getVaultStructure returns
ReadResolve(r) ==
    /\ NoneDone
    /\ reqs[r].pc = "scan"
    /\ LET file == reqs[r].allFiles[reqs[r].i]
       IN  Commit(r, RunScan([World(r) EXCEPT !.rq = [@ EXCEPT
                                !.files = @ \o << VaultFile(file, JStr(file.data)) >>,
                                !.i = @ + 1]]))

\* getVaultStructure: vault.read rejects, which ends exportVaultToMemory
ReadReject(r) ==
    /\ NoneDone
    /\ reqs[r].pc = "scan"
    /\ Commit(r, [World(r) EXCEPT !.rq = [@ EXCEPT !.pc = "failed"]])

\* exportVaultToMemory has rejected: the catch clause answers
ExportRejected(r) ==
    /\ NoneDone
    /\ reqs[r].pc = "failed"
    /\ Commit(r, ExportFailed(World(r)))

\* getVaultStructure has returned: exportVaultToMemory goes on, line 143,
\* and the export of the documents begins
StructureReturned(r) ==
    /\ NoneDone
    /\ reqs[r].pc = "structure"
    /\ Commit(r, RunDocuments([World(r) EXCEPT !.rq = [@ EXCEPT !.k = 1]]))

\* convertCodeBlocks has returned: convertMarkdownToAsciiDoc runs its other
\* stages and returns the text
CodeBlocksConverted(r) ==
    /\ NoneDone
    /\ reqs[r].pc = "codeBlocks"
    /\ Commit(r, [World(r) EXCEPT !.rq = [@ EXCEPT !.pc = "convert"]])

\* convertMarkdownToAsciiDoc has returned the text of a document: its entry
\* is pushed
DocumentConverted(r) ==
    /\ NoneDone
    /\ reqs[r].pc = "convert"
    /\ Commit(r, DocumentToMemory(World(r)))

\* exportMarkdownFileAsAsciiDocToMemory has returned: the loop of line 884
\* goes on to the next document
DocumentExported(r) ==
    /\ NoneDone
    /\ reqs[r].pc = "document"
    /\ Commit(r, RunDocuments([World(r) EXCEPT !.rq = [@ EXCEPT !.k = @ + 1]]))

\* exportMarkdownFilesAsAsciiDocToMemory has returned
DocumentsExported(r) ==
    /\ NoneDone
    /\ reqs[r].pc = "documents"
    /\ Commit(r, exportAsAsciiDocToMemory(World(r)))

\* copyAllAttachmentsToMemory: the read of an asset resolves
AssetResolve(r) ==
    /\ NoneDone
    /\ reqs[r].pc = "assets"
    /\ LET file == reqs[r].aFiles[reqs[r].j]
       IN  Commit(r, RunAssets([World(r) EXCEPT
                                  !.ef = @ \o << AssetEntry(file) >>,
                                  !.rq = [@ EXCEPT !.j = @ + 1]]))

\* copyAllAttachmentsToMemory: the read rejects; the item is skipped
AssetReject(r) ==
    /\ NoneDone
    /\ reqs[r].pc = "assets"
    /\ Commit(r, RunAssets([World(r) EXCEPT !.rq = [@ EXCEPT !.j = @ + 1]]))

\* copyAllAttachmentsToMemory has returned
AssetsCopied(r) ==
    /\ NoneDone
    /\ reqs[r].pc = "index"
    /\ Commit(r, IndexToMemory(World(r)))

\* exportAsAsciiDocToMemory has returned: exportVaultToMemory builds the
\* bundle and returns it
ExportReturned(r) ==
    /\ NoneDone
    /\ reqs[r].pc = "bundle"
    /\ Commit(r, ReturnBundle(World(r)))

\* exportVaultToMemory has returned: performExportAndStream streams the
\* bundle
BundleStreamed(r) ==
    /\ NoneDone
    /\ reqs[r].pc = "stream"
    /\ \E f \in FaultPoints : Commit(r, Stream(World(r), f))

\* the client destroys the connection of a request that waits for the
\* network or the vault
ClientGone(r) ==
    /\ NoneDone
    /\ NoneRunnable
    /\ reqs[r].pc \in { "body", "scan", "assets" }
    /\ reqs[r].socket = "open"
    /\ reqs' = [reqs EXCEPT ![r].socket = "destroyed"]
    /\ UNCHANGED << vault, lifecycleVars, exporterVars, fnVars, fsVars >>

(***************************************************************************)
(* HttpExportServer.start / stop.                                          *)
(***************************************************************************)
\* a call of start(config) or stop(): the server it created or closes (0:
\* none) and the config it was given (NoConfig for stop)
Call(op, outcome, srv, config) ==
    [op |-> op, outcome |-> outcome, srv |-> srv, config |-> config]

NoConfig == [host |-> "", port |-> 0]

\* the addresses and ports a configuration may name: the loopback address
\* (the default) and another address of the machine
Hosts == { "localhost", "192.168.0.2" }
Ports == { 8080, 8081 }
Configs == [host : Hosts, port : Ports]

\* a start() without the guard on isRunning: a faulty variant, for comparison
startUnchecked(config) ==
    /\ servers' = Append(servers, "binding")
    /\ server' = Len(servers) + 1
    /\ calls' = Append(calls, Call("start", "pending", Len(servers) + 1, config))
    /\ UNCHANGED isRunning

\* start(config): the synchronous part
start(config) ==
    IF isRunning
    THEN /\ calls' = Append(calls, Call("start", "error", 0, config))
         /\ UNCHANGED << isRunning, server, servers >>
    ELSE /\ servers' = Append(servers, "binding")
         /\ server' = Len(servers) + 1
         /\ calls' = Append(calls, Call("start", "pending", Len(servers) + 1, config))
         /\ UNCHANGED isRunning

StartCall ==
    /\ Len(calls) < MaxCalls
    /\ \E config \in Configs : start(config)
    /\ UNCHANGED << vault, exporterVars, reqs, fnVars, fsVars >>

\* the config.port and config.host that server s was asked to listen on
ConfigOf(s) ==
    calls[CHOOSE c \in 1..Len(calls) : calls[c].op = "start" /\ calls[c].srv = s].config

\* the listen callback of server s fires: no server of the process listens
\* on its port at its address
Listening(s) ==
    /\ servers[s] = "binding"
    /\ \A t \in 1..Len(servers) : servers[t] = "listening" => ConfigOf(t) # ConfigOf(s)
    /\ servers' = [servers EXCEPT ![s] = "listening"]
    /\ isRunning' = TRUE
    /\ calls' = [c \in 1..Len(calls) |->
                   IF calls[c].op = "start" /\ calls[c].srv = s
                   THEN [calls[c] EXCEPT !.outcome = "resolved"] ELSE calls[c]]
    /\ UNCHANGED << vault, server, exporterVars, reqs, fnVars, fsVars >>

\* the 'error' event of server s fires (the address is in use): reject
ListenError(s) ==
    /\ servers[s] = "binding"
    /\ servers' = [servers EXCEPT ![s] = "failed"]
    /\ calls' = [c \in 1..Len(calls) |->
                   IF calls[c].op = "start" /\ calls[c].srv = s
                   THEN [calls[c] EXCEPT !.outcome = "rejected"] ELSE calls[c]]
    /\ UNCHANGED << vault, isRunning, server, exporterVars, reqs, fnVars, fsVars >>

\* stop(): the synchronous part; close() unbinds a listening server at once
stop ==
    IF ~isRunning \/ server = 0
    THEN /\ calls' = Append(calls, Call("stop", "noop", 0, NoConfig))
         /\ UNCHANGED << isRunning, server, servers >>
    ELSE /\ servers' = [servers EXCEPT ![server] =
                          IF @ = "listening" THEN "closing" ELSE @]
         /\ calls' = Append(calls, Call("stop", "pending", server, NoConfig))
         /\ UNCHANGED << isRunning, server >>

StopCall ==
    /\ Len(calls) < MaxCalls
    /\ stop
    /\ UNCHANGED << vault, exporterVars, reqs, fnVars, fsVars >>

\* the close callback of the stop() call c fires: the server has stopped
\* listening and its connections are closed, each when the response of its
\* request has been handed over or when the client has destroyed it
Closed(c) ==
    /\ calls[c].op = "stop" /\ calls[c].outcome = "pending"
    /\ \A r \in 1..Len(reqs) :
          reqs[r].srv = calls[c].srv => reqs[r].socket = "destroyed"
    /\ isRunning' = FALSE
    /\ servers' = [servers EXCEPT ![calls[c].srv] =
                     IF @ = "closing" THEN "closed" ELSE @]
    /\ calls' = [calls EXCEPT ![c].outcome = "resolved"]
    /\ UNCHANGED << vault, server, exporterVars, reqs, fnVars, fsVars >>

(***************************************************************************)
(* VaultExporter, path handling (isAbsolutePath, resolveExportPath,        *)
(* dirname, joinPath).                                                     *)
(***************************************************************************)
Letters == UpperChars \o LowerChars

IsLetter(c) == \E k \in 1..Len(Letters) : CharAt(Letters, k) = c

\* startsWith('/') || /^[A-Za-z]:[\\\/]/ || startsWith('\\\\')
isAbsolutePath(filePath) ==
    \/ StartsWith(filePath, "/")
    \/ /\ Len(filePath) >= 3
       /\ IsLetter(CharAt(filePath, 1))
       /\ CharAt(filePath, 2) = ":"
       /\ CharAt(filePath, 3) \in {"\\", "/"}
    \/ StartsWith(filePath, "\\\\")

resolveExportPath(exportPath) ==
    IF isAbsolutePath(exportPath) THEN exportPath ELSE "../" \o exportPath

\* parts.join(sep)
RECURSIVE Join(_, _)
Join(parts, sep) ==
    IF Len(parts) = 0 THEN ""
    ELSE IF Len(parts) = 1 THEN parts[1]
    ELSE parts[1] \o sep \o Join(Tail(parts), sep)

\* s.replace(/c+/g, c): every run of the character c becomes one c
RECURSIVE Squeeze(_, _)
Squeeze(s, c) ==
    IF Len(s) <= 1 THEN s
    ELSE IF CharAt(s, 1) = c /\ CharAt(s, 2) = c THEN Squeeze(Tail(s), c)
    ELSE CharAt(s, 1) \o Squeeze(Tail(s), c)

joinPath(base, rel) ==
    IF isAbsolutePath(base) /\ IndexOf(base, "\\") # 0
    THEN Squeeze(Join(<< base, rel >>, "\\"), "\\")
    ELSE Squeeze(Join(<< base, rel >>, "/"), "/")

dirname(filePath) ==
    LET parts == Split(filePath, "/")
    IN  IF Len(parts) <= 1 THEN "."
        ELSE Join(SubSeq(parts, 1, Len(parts) - 1), "/")

\* directories.add(x) on a Set kept in insertion order
AddOnce(seq, x) ==
    IF \E k \in 1..Len(seq) : seq[k] = x THEN seq ELSE Append(seq, x)

\* recreateVaultStructure, lines 257-262: the ancestors of one directory
RECURSIVE AddAncestors(_, _, _)
AddAncestors(directories, currentPath, pathParts) ==
    IF Len(pathParts) = 0 THEN directories
    ELSE LET next == IF currentPath # "" THEN currentPath \o "/" \o Head(pathParts)
                     ELSE Head(pathParts)
         IN  AddAncestors(AddOnce(directories, next), next, Tail(pathParts))

\* recreateVaultStructure, lines 251-264: the directories of all files
RECURSIVE Directories(_, _)
Directories(files, directories) ==
    IF Len(files) = 0 THEN directories
    ELSE LET dirPath == dirname(Head(files).path)
         IN  Directories(Tail(files),
                 IF dirPath # "" /\ dirPath # "."
                 THEN AddAncestors(directories, "", Split(dirPath, "/"))
                 ELSE directories)

(***************************************************************************)
(* VaultExporter.exportVault: the filesystem export, run by the plugin on  *)
(* its own VaultExporter.  q is one call: its position, the locals of the  *)
(* methods on its stack (basePath: the parameter of the method that is     *)
(* running) and the exporter's two fields (es, ef), which are the same for *)
(* every call.  Each operator runs the code up to the next awaited storage *)
(* call.                                                                   *)
(***************************************************************************)
\* the settings values passed to exportVault
RunSettings ==
    [exportPath : {"out", "/abs/out"},
     includeAttachments : BOOLEAN,
     renderDiagrams : {FALSE},
     format : {"asciidoc"}]

\* generateIndexAsciiDoc, line 801: the path of the index is built from the
\* exporter's exportPath as it is then, and the index is to be written next
generateIndexAsciiDoc(q) == [q EXCEPT !.pc = "index", !.basePath = q.es.exportPath]

\* a target path that drops the folders of the asset: a faulty variant,
\* for comparison
TargetPathAtRoot(q) == joinPath(q.basePath, q.aFiles[q.j].name)

\* the target path of the asset at position j
TargetPath(q) == joinPath(q.basePath, q.aFiles[q.j].path)

\* copyAllAttachments from position j to the next storage call
RECURSIVE copyAllAttachments(_)
copyAllAttachments(q) ==
    IF q.j > Len(q.aFiles) THEN generateIndexAsciiDoc(q)
    ELSE IF EndsWith(q.aFiles[q.j].path, ".md")
    THEN copyAllAttachments([q EXCEPT !.j = @ + 1])
    ELSE IF dirname(TargetPath(q)) # "" THEN [q EXCEPT !.pc = "assetDir"]
    ELSE [q EXCEPT !.pc = "assetRead"]

\* exportAsAsciiDoc after the documents, lines 193-197: the exporter's
\* includeAttachments and exportPath are read as they are then; assets if
\* enabled, then the index
AfterDocuments(q) ==
    IF q.es.includeAttachments
    THEN copyAllAttachments([q EXCEPT !.aFiles = vault, !.j = 1,
                                      !.basePath = q.es.exportPath])
    ELSE generateIndexAsciiDoc(q)

\* exportMarkdownFilesAsAsciiDoc from position k to the next write
RECURSIVE exportMarkdownFilesAsAsciiDoc(_)
exportMarkdownFilesAsAsciiDoc(q) ==
    IF q.k > Len(q.files) THEN AfterDocuments(q)
    ELSE IF ~q.files[q.k].isMarkdown \/ NoContent(q.files[q.k])
    THEN exportMarkdownFilesAsAsciiDoc([q EXCEPT !.k = @ + 1])
    ELSE [q EXCEPT !.pc = "doc"]

\* recreateVaultStructure from position d to the next mkdir; when it has
\* returned, line 190 reads the exporter's exportPath for the documents
recreateVaultStructure(q) ==
    IF q.d > Len(q.dirs)
    THEN exportMarkdownFilesAsAsciiDoc([q EXCEPT !.k = 1, !.basePath = q.es.exportPath])
    ELSE [q EXCEPT !.pc = "dir"]

\* an exportAsAsciiDoc that does not recreate the folder structure before it
\* writes the documents: a faulty variant, for comparison
exportAsAsciiDocUnstructured(q) ==
    exportMarkdownFilesAsAsciiDoc([q EXCEPT !.k = 1, !.basePath = q.es.exportPath])

\* exportAsAsciiDoc: line 187 reads the exporter's exportPath, and the
\* directories of the structure are created first
exportAsAsciiDoc(q) ==
    recreateVaultStructure([q EXCEPT !.dirs = Directories(q.files, << >>), !.d = 1,
                                     !.basePath = q.es.exportPath])

\* getVaultStructure from position i to the next read
RECURSIVE getVaultStructure(_)
getVaultStructure(q) ==
    IF q.i > Len(q.allFiles) THEN exportAsAsciiDoc(q)
    ELSE IF q.allFiles[q.i].extension = "md" THEN [q EXCEPT !.pc = "scan"]
    ELSE getVaultStructure([q EXCEPT
             !.files = @ \o << VaultFile(q.allFiles[q.i], Undefined) >>,
             !.i = @ + 1])

\* exportVault, lines 112-122: up to the mkdir of the target root.  given is
\* the settings value as the caller passed it (from: the earlier call that
\* was given the same object, 0 for a new one); passed is the caller's object
\* after the call: line 112 makes the exporter's field refer to that same
\* object, so the assignment of line 119 changes it as well.  The fields of
\* the exporter are set whatever another call is doing
exportVault(settings) ==
    [pc |-> "root",
     from |-> 0,
     basePath |-> resolveExportPath(settings.exportPath),
     given |-> settings,
     passed |-> [settings EXCEPT !.exportPath = resolveExportPath(settings.exportPath)],
     es |-> [settings EXCEPT !.exportPath = resolveExportPath(settings.exportPath)],
     ef |-> << >>,
     allFiles |-> << >>, i |-> 0, files |-> << >>,
     dirs |-> << >>, d |-> 0, k |-> 0,
     aFiles |-> << >>, j |-> 0,
     failures |-> 0,
     outcome |-> "pending"]

\* an exception leaves exportVault: its promise rejects
Rejected(q) == [q EXCEPT !.pc = "done", !.outcome = "rejected"]

\* a storage call that has returned, with its outcome (call: the
\* exportVault call it was made in; by: the method that made it)
StorageCall(call, by, op, path, ok) ==
    [call |-> call, by |-> by, op |-> op, path |-> path, ok |-> ok]

\* the reads, mkdirs and writes that have failed in the calls
RECURSIVE Failures(_)
Failures(all) ==
    IF all = << >> THEN 0 ELSE Head(all).failures + Failures(Tail(all))

\* a read, a mkdir or a write succeeds or fails; they fail at most
\* MaxFailures times
Outcomes == IF Failures(runs) < MaxFailures THEN BOOLEAN ELSE {TRUE}

\* the calls after a step that leaves call a as q: the fields of the
\* exporter that q holds are those of every call
After(all, a, q) ==
    [b \in 1..Len(all) |->
        IF b = a THEN q ELSE [all[b] EXCEPT !.es = q.es, !.ef = q.ef]]

Failed(q, ok) == [q EXCEPT !.failures = IF ok THEN @ ELSE @ + 1]

\* a step of call a leaves it as q
Leaves(a, q) == runs' = After(runs, a, q)

RunFrame == UNCHANGED << vault, lifecycleVars, exporterVars, reqs, fnVars >>

\* the plugin calls exportVault, whatever else is in progress; it makes at
\* most limit calls
StartRun(limit) ==
    /\ Len(runs) < limit
    /\ \E settings \in RunSettings :
         runs' = After(Append(runs, exportVault(settings)), Len(runs) + 1,
                       exportVault(settings))
    /\ UNCHANGED storage
    /\ RunFrame

\* the user runs the export command once
StartOne == StartRun(1)

\* the user runs the export command again, whether or not the call before
\* has ended
StartOverlapping == StartRun(MaxRuns)

\* ensureDirectory of the target root returns: the error of a failed mkdir
\* is caught and logged, and getVaultStructure follows
RootCreated(a) ==
    /\ runs[a].pc = "root"
    /\ \E ok \in Outcomes :
         /\ storage' = Append(storage,
               StorageCall(a, "exportVault", "mkdir", runs[a].basePath, ok))
         /\ Leaves(a, getVaultStructure([Failed(runs[a], ok) EXCEPT !.allFiles = vault, !.i = 1]))
    /\ RunFrame

\* getVaultStructure: vault.read of a markdown file resolves or rejects
FileRead(a) ==
    /\ runs[a].pc = "scan"
    /\ \E ok \in Outcomes :
         LET file == runs[a].allFiles[runs[a].i]
         IN  Leaves(a, IF ok
                    THEN getVaultStructure([runs[a] EXCEPT
                             !.files = @ \o << VaultFile(file, JStr(file.data)) >>,
                             !.i = @ + 1])
                    ELSE Rejected(Failed(runs[a], ok)))
    /\ UNCHANGED storage
    /\ RunFrame

\* recreateVaultStructure: ensureDirectory of one directory returns
DirectoryCreated(a) ==
    /\ runs[a].pc = "dir"
    /\ \E ok \in Outcomes :
         /\ storage' = Append(storage,
               StorageCall(a, "recreateVaultStructure", "mkdir",
                           joinPath(runs[a].basePath, runs[a].dirs[runs[a].d]), ok))
         /\ Leaves(a, recreateVaultStructure([Failed(runs[a], ok) EXCEPT !.d = @ + 1]))
    /\ RunFrame

\* exportMarkdownFileAsAsciiDoc: writeFile of the converted document returns
\* or throws
DocumentWritten(a) ==
    /\ runs[a].pc = "doc"
    /\ \E ok \in Outcomes :
         LET file == runs[a].files[runs[a].k]
             asciidocPath == joinPath(runs[a].basePath, ReplaceMdExt(file.path))
             entry == [path |-> asciidocPath,
                       content |-> AsciiDocOf(file.content, file),
                       type |-> "asciidoc"]
         IN  /\ storage' = Append(storage,
                   StorageCall(a, "exportMarkdownFileAsAsciiDoc", "write",
                               asciidocPath, ok))
             /\ Leaves(a, IF ok
                       THEN exportMarkdownFilesAsAsciiDoc([runs[a] EXCEPT
                                !.ef = Append(@, entry), !.k = @ + 1])
                       ELSE Rejected(Failed(runs[a], ok)))
    /\ RunFrame

\* copyAllAttachments: ensureDirectory of the asset's directory returns
AssetDirectoryCreated(a) ==
    /\ runs[a].pc = "assetDir"
    /\ \E ok \in Outcomes :
         /\ storage' = Append(storage,
               StorageCall(a, "copyAllAttachments", "mkdir", dirname(TargetPath(runs[a])), ok))
         /\ Leaves(a, [Failed(runs[a], ok) EXCEPT !.pc = "assetRead"])
    /\ RunFrame

\* copyAllAttachments: the read of the asset resolves, or rejects and the
\* catch clause skips the asset
AssetRead(a) ==
    /\ runs[a].pc = "assetRead"
    /\ \E ok \in Outcomes :
         Leaves(a, IF ok THEN [runs[a] EXCEPT !.pc = "assetWrite"]
                ELSE copyAllAttachments([Failed(runs[a], ok) EXCEPT !.j = @ + 1]))
    /\ UNCHANGED storage
    /\ RunFrame

\* copyAllAttachments: the write of the asset returns, or throws and the
\* catch clause skips the asset
AssetWritten(a) ==
    /\ runs[a].pc = "assetWrite"
    /\ \E ok \in Outcomes :
         LET entry == [path |-> TargetPath(runs[a]), content |-> JStr(<< >>),
                       type |-> "asset"]
             op == IF isBinaryFile(runs[a].aFiles[runs[a].j].path) THEN "writeBinary"
                   ELSE "write"
         IN  /\ storage' = Append(storage,
                   StorageCall(a, "copyAllAttachments", op, TargetPath(runs[a]), ok))
             /\ Leaves(a, copyAllAttachments([Failed(runs[a], ok) EXCEPT
                          !.ef = IF ok THEN Append(@, entry) ELSE @,
                          !.j = @ + 1]))
    /\ RunFrame

\* generateIndexAsciiDoc: writeFile of the index returns or throws
IndexWritten(a) ==
    /\ runs[a].pc = "index"
    /\ \E ok \in Outcomes :
         LET indexPath == joinPath(runs[a].basePath, "index.adoc")
             entry == [path |-> indexPath,
                       content |-> [t |-> "index",
                                    indexOf |-> generateAsciiDocFileList(runs[a].files)],
                       type |-> "asciidoc"]
         IN  /\ storage' = Append(storage,
                   StorageCall(a, "generateIndexAsciiDoc", "write", indexPath, ok))
             /\ Leaves(a, IF ok
                       THEN [runs[a] EXCEPT !.ef = Append(@, entry), !.pc = "done",
                                        !.outcome = "resolved"]
                       ELSE Rejected(Failed(runs[a], ok)))
    /\ RunFrame

(***************************************************************************)
(* Specifications.                                                         *)
(***************************************************************************)
\* the state after construction of HttpExportServer
Constructed ==
    /\ isRunning = FALSE
    /\ server = 0
    /\ servers = << >>
    /\ calls = << >>
    /\ exportSettings = NoSettings
    /\ exportedFiles = << >>
    /\ reqs = << >>
    /\ fnIn = NoValue
    /\ fnOut = NoValue
    /\ storage = << >>
    /\ runs = << >>

\* the server's lifecycle
InitServer ==
    /\ vault = << >>
    /\ Constructed

NextServer ==
    \/ StartCall
    \/ StopCall
    \/ \E s \in 1..Len(servers) : Listening(s)
    \/ \E s \in 1..Len(servers) : ListenError(s)
    \/ \E c \in 1..Len(calls) : Closed(c)

SpecServer == InitServer /\ [][NextServer]_vars

\* the state in which start() has resolved
Serving ==
    /\ isRunning = TRUE
    /\ server = 1
    /\ servers = << "listening" >>
    /\ calls = << Call("start", "resolved", 1, [host |-> "localhost", port |-> 8080]) >>
    /\ exportSettings = NoSettings
    /\ exportedFiles = << >>
    /\ reqs = << >>
    /\ fnIn = NoValue
    /\ fnOut = NoValue
    /\ storage = << >>
    /\ runs = << >>

\* request handling by a running server
Init ==
    /\ vault \in Vaults
    /\ Serving

Next ==
    \/ ReceiveNext
    \/ \E r \in 1..Len(reqs) : Close(r)
    \/ \E r \in 1..Len(reqs) : BodyEnd(r)
    \/ \E r \in 1..Len(reqs) : BodyError(r)
    \/ \E r \in 1..Len(reqs) : ReadResolve(r)
    \/ \E r \in 1..Len(reqs) : ReadReject(r)
    \/ \E r \in 1..Len(reqs) : ExportRejected(r)
    \/ \E r \in 1..Len(reqs) : StructureReturned(r)
    \/ \E r \in 1..Len(reqs) : CodeBlocksConverted(r)
    \/ \E r \in 1..Len(reqs) : DocumentConverted(r)
    \/ \E r \in 1..Len(reqs) : DocumentExported(r)
    \/ \E r \in 1..Len(reqs) : DocumentsExported(r)
    \/ \E r \in 1..Len(reqs) : AssetResolve(r)
    \/ \E r \in 1..Len(reqs) : AssetReject(r)
    \/ \E r \in 1..Len(reqs) : AssetsCopied(r)
    \/ \E r \in 1..Len(reqs) : ExportReturned(r)
    \/ \E r \in 1..Len(reqs) : BundleStreamed(r)

Spec == Init /\ [][Next]_vars

\* request handling while stop() closes the server: the connections that
\* were accepted before still deliver requests until the close callback
NextShutdown ==
    \/ Next
    \/ \E r \in 1..Len(reqs) : ClientGone(r)
    \/ StopCall
    \/ \E c \in 1..Len(calls) : Closed(c)

SpecShutdown == Init /\ [][NextShutdown]_vars

\* request handling with overlapping requests
InitOverlap ==
    /\ vault \in OverlapVaults
    /\ Serving

NextOverlap ==
    \/ ReceiveOverlapping
    \/ \E r \in 1..Len(reqs) : Close(r)
    \/ \E r \in 1..Len(reqs) : BodyEnd(r)
    \/ \E r \in 1..Len(reqs) : BodyError(r)
    \/ \E r \in 1..Len(reqs) : ReadResolve(r)
    \/ \E r \in 1..Len(reqs) : ReadReject(r)
    \/ \E r \in 1..Len(reqs) : ExportRejected(r)
    \/ \E r \in 1..Len(reqs) : StructureReturned(r)
    \/ \E r \in 1..Len(reqs) : CodeBlocksConverted(r)
    \/ \E r \in 1..Len(reqs) : DocumentConverted(r)
    \/ \E r \in 1..Len(reqs) : DocumentExported(r)
    \/ \E r \in 1..Len(reqs) : DocumentsExported(r)
    \/ \E r \in 1..Len(reqs) : AssetResolve(r)
    \/ \E r \in 1..Len(reqs) : AssetReject(r)
    \/ \E r \in 1..Len(reqs) : AssetsCopied(r)
    \/ \E r \in 1..Len(reqs) : ExportReturned(r)
    \/ \E r \in 1..Len(reqs) : BundleStreamed(r)

SpecOverlap == InitOverlap /\ [][NextOverlap]_vars

\* the exports of both modes: the requests a running server handles in
\* memory mode, and an exportVault call of the plugin, made and carried out
\* whatever the requests are doing
NextExport ==
    \/ ReceiveExporting
    \/ \E r \in 1..Len(reqs) : Close(r)
    \/ \E r \in 1..Len(reqs) : BodyEnd(r)
    \/ \E r \in 1..Len(reqs) : BodyError(r)
    \/ \E r \in 1..Len(reqs) : ReadResolve(r)
    \/ \E r \in 1..Len(reqs) : ReadReject(r)
    \/ \E r \in 1..Len(reqs) : ExportRejected(r)
    \/ \E r \in 1..Len(reqs) : StructureReturned(r)
    \/ \E r \in 1..Len(reqs) : CodeBlocksConverted(r)
    \/ \E r \in 1..Len(reqs) : DocumentConverted(r)
    \/ \E r \in 1..Len(reqs) : DocumentExported(r)
    \/ \E r \in 1..Len(reqs) : DocumentsExported(r)
    \/ \E r \in 1..Len(reqs) : AssetResolve(r)
    \/ \E r \in 1..Len(reqs) : AssetReject(r)
    \/ \E r \in 1..Len(reqs) : AssetsCopied(r)
    \/ \E r \in 1..Len(reqs) : ExportReturned(r)
    \/ \E r \in 1..Len(reqs) : BundleStreamed(r)
    \/ StartOne
    \/ \E a \in 1..Len(runs) : RootCreated(a)
    \/ \E a \in 1..Len(runs) : FileRead(a)
    \/ \E a \in 1..Len(runs) : DirectoryCreated(a)
    \/ \E a \in 1..Len(runs) : DocumentWritten(a)
    \/ \E a \in 1..Len(runs) : AssetDirectoryCreated(a)
    \/ \E a \in 1..Len(runs) : AssetRead(a)
    \/ \E a \in 1..Len(runs) : AssetWritten(a)
    \/ \E a \in 1..Len(runs) : IndexWritten(a)

SpecExport == Init /\ [][NextExport]_vars

\* the vault changes while an export run is in progress, once, after the run
\* has enumerated it: the user adds an asset
FileAdded ==
    /\ \E a \in 1..Len(runs) : /\ runs[a].pc \notin { "root", "done" }
                                 /\ vault = runs[a].allFiles
    /\ vault' = Append(vault, TFile("late.png", "late.png", "png", << 137 >>))
    /\ UNCHANGED << lifecycleVars, exporterVars, reqs, fnVars, fsVars >>

\* or removes one
FileRemoved ==
    /\ \E a \in 1..Len(runs) : /\ runs[a].pc \notin { "root", "done" }
                                 /\ vault = runs[a].allFiles
    /\ \E i \in 1..Len(vault) :
         /\ vault[i].extension # "md"
         /\ vault' = SubSeq(vault, 1, i - 1) \o SubSeq(vault, i + 1, Len(vault))
    /\ UNCHANGED << lifecycleVars, exporterVars, reqs, fnVars, fsVars >>

\* the caller of exportVault calls it again with the settings object it
\* passed to call a, which has ended
RunAgain(a) ==
    /\ runs[a].pc = "done" /\ runs[a].outcome = "resolved"
    /\ Len(runs) < MaxRuns
    /\ runs' = After(Append(runs, exportVault(runs[a].passed)), Len(runs) + 1,
                     [exportVault(runs[a].passed) EXCEPT !.from = a])
    /\ UNCHANGED storage
    /\ RunFrame

\* the exportVault calls of the plugin: a call may be made while the call
\* before is suspended in a storage call, and with a settings object passed
\* before
NextCalls ==
    \/ StartOverlapping
    \/ \E a \in 1..Len(runs) : RootCreated(a)
    \/ \E a \in 1..Len(runs) : FileRead(a)
    \/ \E a \in 1..Len(runs) : DirectoryCreated(a)
    \/ \E a \in 1..Len(runs) : DocumentWritten(a)
    \/ \E a \in 1..Len(runs) : AssetDirectoryCreated(a)
    \/ \E a \in 1..Len(runs) : AssetRead(a)
    \/ \E a \in 1..Len(runs) : AssetWritten(a)
    \/ \E a \in 1..Len(runs) : IndexWritten(a)
    \/ \E a \in 1..Len(runs) : RunAgain(a)

SpecCalls == InitOverlap /\ [][NextCalls]_vars

\* the settings of a request as the ExportSettings value they are: the
\* exportPath as its string
ExportSettingsOf(settings) == [settings EXCEPT !.exportPath = settings.exportPath.v]

\* exportVault is called with the settings of the request the server has just
\* answered from an export in memory mode, on the same vault
StartSameRun ==
    /\ runs = << >>
    /\ Len(reqs) = 1
    /\ reqs[1].pc = "done" /\ reqs[1].returned
    /\ reqs[1].settings.exportPath.t = "str"
    /\ runs' = << exportVault(ExportSettingsOf(reqs[1].settings)) >>
    /\ UNCHANGED storage
    /\ RunFrame

\* an export in memory mode followed by the filesystem export of the same
\* vault with the same settings
NextSinks ==
    \/ runs = << >> /\ Next
    \/ StartSameRun
    \/ \E a \in 1..Len(runs) : RootCreated(a)
    \/ \E a \in 1..Len(runs) : FileRead(a)
    \/ \E a \in 1..Len(runs) : DirectoryCreated(a)
    \/ \E a \in 1..Len(runs) : DocumentWritten(a)
    \/ \E a \in 1..Len(runs) : AssetDirectoryCreated(a)
    \/ \E a \in 1..Len(runs) : AssetRead(a)
    \/ \E a \in 1..Len(runs) : AssetWritten(a)
    \/ \E a \in 1..Len(runs) : IndexWritten(a)

SpecSinks == Init /\ [][NextSinks]_vars

\* an exportVault call of the plugin on a vault that changes during the run
NextSnapshot ==
    \/ StartOne
    \/ \E a \in 1..Len(runs) : RootCreated(a)
    \/ \E a \in 1..Len(runs) : FileRead(a)
    \/ \E a \in 1..Len(runs) : DirectoryCreated(a)
    \/ \E a \in 1..Len(runs) : DocumentWritten(a)
    \/ \E a \in 1..Len(runs) : AssetDirectoryCreated(a)
    \/ \E a \in 1..Len(runs) : AssetRead(a)
    \/ \E a \in 1..Len(runs) : AssetWritten(a)
    \/ \E a \in 1..Len(runs) : IndexWritten(a)
    \/ FileAdded
    \/ FileRemoved

SpecSnapshot == Init /\ [][NextSnapshot]_vars

(***************************************************************************)
(* The two settings builders applied on their own to request data built    *)
(* from the choices made for each field.                                   *)
(***************************************************************************)
Absent == "absent"

\* what a client may put into a query parameter
QueryChoices == {Absent, "true", "false", "TRUE", "1", ""}
PathChoices == {Absent, "out", ""}

\* "name=value" pairs of the fields that are present, joined with "&"
RECURSIVE JoinAmp(_)
JoinAmp(pairs) ==
    IF Len(pairs) = 0 THEN ""
    ELSE IF Len(pairs) = 1 THEN Head(pairs)
    ELSE Head(pairs) \o "&" \o JoinAmp(Tail(pairs))

\* a text as a client may write it in a query: as it is, or with its first
\* character written as %XX
Written(s, escaped) ==
    IF escaped /\ s # ""
    THEN PercentEncoded(At(s, 1)) \o Sub(s, 2, Len(s))
    ELSE s

QueryPair(name, choice, escaped) ==
    IF choice = Absent THEN << >>
    ELSE << Written(name, escaped) \o "=" \o Written(choice, escaped) >>

QueryUrl(ep, ia, rd, escaped) ==
    LET pairs == QueryPair("exportPath", ep, escaped)
                 \o QueryPair("includeAttachments", ia, escaped)
                 \o QueryPair("renderDiagrams", rd, escaped)
    IN  IF Len(pairs) = 0 THEN "/export" ELSE "/export?" \o JoinAmp(pairs)

\* what a client may put into a field of the JSON body
FlagValues ==
    {Undefined, JNull, JBool(TRUE), JBool(FALSE), JStr("true"), JStr("false"),
     JNum("0"), JNum("1")}
PathValues == {Undefined, JStr("out"), JStr(""), JNum("0")}

BodyObject(ep, ia, rd) ==
    LET present == {n \in {"exportPath", "includeAttachments", "renderDiagrams"} :
                      CASE n = "exportPath" -> ep # Undefined
                        [] n = "includeAttachments" -> ia # Undefined
                        [] OTHER -> rd # Undefined}
    IN  JObj([n \in present |->
                CASE n = "exportPath" -> ep
                  [] n = "includeAttachments" -> ia
                  [] OTHER -> rd])

SettingsInputs ==
    { [kind |-> "query", ep |-> JStr(ep), ia |-> JStr(ia), rd |-> JStr(rd),
       data |-> JStr(QueryUrl(ep, ia, rd, escaped))] :
        ep \in PathChoices, ia \in QueryChoices, rd \in QueryChoices,
        escaped \in BOOLEAN }
    \cup
    { [kind |-> "body", ep |-> ep, ia |-> ia, rd |-> rd,
       data |-> BodyObject(ep, ia, rd)] :
        ep \in PathValues, ia \in FlagValues, rd \in FlagValues }

InitSettings ==
    /\ vault = << >>
    /\ isRunning = FALSE
    /\ server = 0
    /\ servers = << >>
    /\ calls = << >>
    /\ exportSettings = NoSettings
    /\ exportedFiles = << >>
    /\ reqs = << >>
    /\ fnIn \in SettingsInputs
    /\ fnOut = NoValue
    /\ storage = << >>
    /\ runs = << >>

\* handleExportGet builds the settings of a GET request
ApplyHandleExportGet ==
    /\ fnIn.kind = "query" /\ fnOut = NoValue
    /\ fnOut' = handleExportGetSettings(NewURL(fnIn.data.v, DefaultHost))
    /\ UNCHANGED << vault, lifecycleVars, exporterVars, reqs, fnIn, fsVars >>

\* handleExport builds the settings of a POST request
ApplyParseExportSettings ==
    /\ fnIn.kind = "body" /\ fnOut = NoValue
    /\ fnOut' = parseExportSettings(fnIn.data)
    /\ UNCHANGED << vault, lifecycleVars, exporterVars, reqs, fnIn, fsVars >>

NextSettings == ApplyHandleExportGet \/ ApplyParseExportSettings

SpecSettings == InitSettings /\ [][NextSettings]_vars

(***************************************************************************)
(* VaultExporter, the conversion of markdown text.  A text is a string; a  *)
(* position is an index from 1.  Each stage is the replace or the line     *)
(* scan of the source, computed from left to right as the regular          *)
(* expression engine does.                                                 *)
(***************************************************************************)
\* a match of a pattern at a position: the length of the matched text (0:
\* no match at this position) and the text that replaces it
NoMatch == [len |-> 0, by |-> ""]

\* lines 571 and 577: /dd([^d]+)dd/ for a delimiter character d, replaced
\* by '*$1*'
DoubleMatch(s, p, d) ==
    LET n == RunExcept(s, p + 2, { d })
    IN  IF Has(s, p, d \o d) /\ n >= 1 /\ Has(s, p + 2 + n, d \o d)
        THEN [len |-> n + 4, by |-> "*" \o Sub(s, p + 2, p + 1 + n) \o "*"]
        ELSE NoMatch

\* line 574: /(?<!\*)\*([^*]+)\*(?!\*)/ replaced by '_$1_'
SingleAsteriskMatch(s, p) ==
    LET n == RunExcept(s, p + 1, { "*" })
    IN  IF /\ At(s, p - 1) # "*"
           /\ At(s, p) = "*"
           /\ n >= 1
           /\ At(s, p + 1 + n) = "*"
           /\ At(s, p + 2 + n) # "*"
        THEN [len |-> n + 2, by |-> "_" \o Sub(s, p + 1, p + n) \o "_"]
        ELSE NoMatch

\* the characters String.prototype.trim removes and \s matches
WhiteSpace == { " ", "\t", "\r", "\n", "\f" }

\* line.trim()
Trim(s) ==
    LET a == RunOf(s, 1, WhiteSpace)
        b == CHOOSE b \in 0..Len(s) :
                /\ \A k \in (b + 1)..Len(s) : At(s, k) \in WhiteSpace
                /\ b = 0 \/ At(s, b) \notin WhiteSpace
    IN  Sub(s, a + 1, b)

UpperChar(c) ==
    IF \E k \in 1..26 : CharAt(LowerChars, k) = c
    THEN CharAt(UpperChars, CHOOSE k \in 1..26 : CharAt(LowerChars, k) = c)
    ELSE c

ToUpperCase(s) == Concat([k \in 1..Len(s) |-> UpperChar(At(s, k))], 1, Len(s))

\* the kinds of callout the scanner recognizes, in the order of the pattern
CalloutKinds ==
    << "note", "tip", "important", "warning", "caution", "example", "quote" >>

\* the characters the dot of a regular expression does not match
LineTerminators == { "\n", "\r" }

\* line 442: line.match(/^>\s*\[!(note|...|quote)([+-])?\]\s*(.*?)$/), with
\* the groups type, collapsible and title of a match
CalloutMatch(line) ==
    LET p == 2 + RunOf(line, 2, WhiteSpace)
        kinds == { k \in 1..Len(CalloutKinds) : Has(line, p + 2, CalloutKinds[k]) }
        type == IF kinds = {} THEN "" ELSE CalloutKinds[CHOOSE k \in kinds : TRUE]
        q == p + 2 + Len(type)
        collapsible == IF At(line, q) \in { "+", "-" } /\ At(line, q + 1) = "]"
                       THEN At(line, q) ELSE ""
        r == q + Len(collapsible) + 1
        t == r + RunOf(line, r, WhiteSpace)
    IN  [ok |-> /\ At(line, 1) = ">"
                /\ Has(line, p, "[!")
                /\ kinds # {}
                /\ At(line, r - 1) = "]"
                /\ \A k \in t..Len(line) : At(line, k) \notin LineTerminators,
         type |-> type, collapsible |-> collapsible,
         title |-> Sub(line, t, Len(line))]

\* lines 450-457: the text that opens the admonition
Admonition(m) ==
    "[" \o ToUpperCase(m.type) \o "]"
    \o (IF m.title # "" THEN "\n." \o m.title ELSE "")
    \o (IF m.collapsible = "-" THEN "\n[%collapsible]" ELSE "")
    \o "\n===="

\* the number of lines from line i on that start with '>'
RECURSIVE QuotedRun(_, _)
QuotedRun(lines, i) ==
    IF i > Len(lines) \/ ~StartsWith(lines[i], ">") THEN 0
    ELSE 1 + QuotedRun(lines, i + 1)

\* lines[i].replace(/^>\s?/, '') for a line that starts with '>'
StripQuote(line) ==
    IF At(line, 2) \in WhiteSpace THEN Sub(line, 3, Len(line))
    ELSE Sub(line, 2, Len(line))

\* the loop closing an admonition only when a line that is not quoted
\* follows it: a faulty variant, for comparison
RECURSIVE CalloutScanOpenAtEnd(_, _, _)
CalloutScanOpenAtEnd(lines, i, result) ==
    IF i > Len(lines) THEN result
    ELSE IF CalloutMatch(lines[i]).ok
    THEN LET k == QuotedRun(lines, i + 1)
         IN  CalloutScanOpenAtEnd(lines, i + 1 + k,
                 result \o << Admonition(CalloutMatch(lines[i])) >>
                 \o [j \in 1..k |-> StripQuote(lines[i + j])]
                 \o (IF i + k < Len(lines) THEN << "====" >> ELSE << >>))
    ELSE CalloutScanOpenAtEnd(lines, i + 1, result \o << lines[i] >>)

\* lines 440-475: the loop over the lines from line i on
RECURSIVE CalloutScan(_, _, _)
CalloutScan(lines, i, result) ==
    IF i > Len(lines) THEN result
    ELSE IF CalloutMatch(lines[i]).ok
    THEN LET k == QuotedRun(lines, i + 1)
         IN  CalloutScan(lines, i + 1 + k,
                 result \o << Admonition(CalloutMatch(lines[i])) >>
                 \o [j \in 1..k |-> StripQuote(lines[i + j])]
                 \o << "====" >>)
    ELSE CalloutScan(lines, i + 1, result \o << lines[i] >>)

\* lines 435-479
convertObsidianCallouts(content) ==
    Join(CalloutScan(SplitOn(content, "\n"), 1, << >>), "\n")

\* 'x'.repeat(n)
RECURSIVE Repeat(_, _)
Repeat(x, n) == IF n <= 0 THEN "" ELSE x \o Repeat(x, n - 1)

\* lines 701-703: the trimmed cells of one table row
TableCells(row) ==
    LET inner == Sub(Trim(row), 2, Len(Trim(row)) - 1)
        cells == SplitOn(inner, "|")
    IN  [k \in 1..Len(cells) |-> Trim(cells[k])]

\* lines 708-716: one row of the output table
TableRowText(cells, isHeader) ==
    Join([k \in 1..Len(cells) |->
            IF isHeader THEN "|*" \o cells[k] \o "*" ELSE "|" \o cells[k]], " ")
    \o "\n"

RECURSIVE TableRowsText(_, _)
TableRowsText(tableRows, i) ==
    IF i > Len(tableRows) THEN ""
    ELSE TableRowText(TableCells(tableRows[i]), i = 1) \o TableRowsText(tableRows, i + 1)

convertTableToAsciiDoc(tableRows) ==
    IF Len(tableRows) = 0 THEN ""
    ELSE LET n == Len(TableCells(tableRows[1]))
             cols == Sub(Repeat("1,", n), 1, 2 * n - 1)
         IN  "[cols=\"" \o cols \o "\"]\n" \o "|===\n"
             \o TableRowsText(tableRows, 1) \o "|===\n"

\* line 670: line.trim().startsWith('|') && line.trim().endsWith('|')
IsTableRow(line) == StartsWith(Trim(line), "|") /\ EndsWith(Trim(line), "|")

\* line 676: line.trim().match(/^\|[\s\-:]+\|$/)
IsTableSeparator(line) ==
    LET t == Trim(line)
    IN  /\ Len(t) >= 3
        /\ At(t, 1) = "|"
        /\ At(t, Len(t)) = "|"
        /\ \A k \in 2..(Len(t) - 1) : At(t, k) \in WhiteSpace \cup { "-", ":" }

\* lines 666-688: the loop over the lines from line i on
RECURSIVE TableScan(_, _, _, _, _)
TableScan(lines, i, inTable, tableRows, result) ==
    IF i > Len(lines)
    THEN (IF inTable /\ Len(tableRows) > 0
          THEN result \o << convertTableToAsciiDoc(tableRows) >>
          ELSE result)
    ELSE IF IsTableRow(lines[i])
    THEN TableScan(lines, i + 1, TRUE,
                   (IF inTable THEN tableRows ELSE << >>) \o << lines[i] >>, result)
    ELSE IF inTable /\ IsTableSeparator(lines[i])
    THEN TableScan(lines, i + 1, inTable, tableRows, result)
    ELSE TableScan(lines, i + 1, FALSE, << >>,
                   (IF inTable THEN result \o << convertTableToAsciiDoc(tableRows) >>
                    ELSE result) \o << lines[i] >>)

\* lines 659-696
convertTables(content) ==
    Join(TableScan(SplitOn(content, "\n"), 1, FALSE, << >>, << >>), "\n")

(***************************************************************************)
(* The stages that replace every match of a pattern.                       *)
(***************************************************************************)
\* [a-zA-Z0-9\-_]
IdChars == CharsOf(Letters) \cup CharsOf(Digits) \cup { "-", "_" }

\* [a-zA-Z0-9\-_\/]
TagChars == IdChars \cup { "/" }

\* \w
WordChars == CharsOf(Letters) \cup CharsOf(Digits) \cup { "_" }

\* ^ with the m flag: the start of the text or of a line
AtLineStart(s, p) == p = 1 \/ At(s, p - 1) \in LineTerminators

\* $ with the m flag: the end of the text or of a line
AtLineEnd(s, p) == p > Len(s) \/ At(s, p) \in LineTerminators

\* .*: the length of the rest of the line from position p
RestOfLine(s, p) == RunExcept(s, p, LineTerminators)

\* line 430: /#([a-zA-Z0-9\-_\/]+)/ replaced by [.tag]#tag#
TagMatch(s, p) ==
    LET n == RunOf(s, p + 1, TagChars)
    IN  IF At(s, p) = "#" /\ n >= 1
        THEN [len |-> 1 + n, by |-> "[.tag]#" \o Sub(s, p + 1, p + n) \o "#"]
        ELSE NoMatch

\* /\[\[([^\]|]+)(\|([^\]]+))?\]\]/ at position p: the groups target and
\* text of a match, and its length
LinkMatch(s, p) ==
    LET n == RunExcept(s, p + 2, { "]", "|" })
        q == p + 2 + n
        m == IF At(s, q) = "|" THEN RunExcept(s, q + 1, { "]" }) ELSE 0
        r == IF m >= 1 THEN q + 1 + m ELSE q
    IN  IF Has(s, p, "[[") /\ n >= 1 /\ Has(s, r, "]]")
        THEN [len |-> r + 2 - p, target |-> Sub(s, p + 2, q - 1),
              text |-> IF m >= 1 THEN Sub(s, q + 1, r - 1) ELSE ""]
        ELSE [len |-> 0, target |-> "", text |-> ""]

\* name.replace(/\.[^.]+$/, ''): the name without its last extension
RECURSIVE LastIndexOf(_, _, _)
LastIndexOf(s, c, i) ==
    IF i < 1 THEN 0 ELSE IF At(s, i) = c THEN i ELSE LastIndexOf(s, c, i - 1)

StripExtension(name) ==
    LET d == LastIndexOf(name, ".", Len(name))
    IN  IF d = 0 \/ d = Len(name) THEN name ELSE Sub(name, 1, d - 1)

ImageExtensions == { ".png", ".jpg", ".jpeg", ".gif", ".svg", ".webp", ".bmp" }

\* lines 483-496: /!\[\[([^\]|]+)(\|([^\]]+))?\]\]/ replaced by an image
\* macro or an include
EmbedMatch(s, p) ==
    LET m == LinkMatch(s, p + 1)
        filename == m.target
        isImage == \E ext \in ImageExtensions : EndsWith(ToLowerCase(filename), ext)
    IN  IF At(s, p) = "!" /\ m.len > 0
        THEN [len |-> 1 + m.len,
              by |-> IF isImage
                     THEN "image::" \o filename \o "["
                          \o (IF m.text # "" THEN m.text ELSE StripExtension(filename))
                          \o "]"
                     ELSE "include::"
                          \o (IF EndsWith(filename, ".md")
                              THEN ReplaceFirst(filename, ".md", ".adoc")
                              ELSE filename)
                          \o "[]"]
        ELSE NoMatch

\* s.replace(/[^a-z0-9\-_]/g, '-')
Hyphenate(s) ==
    Concat([k \in 1..Len(s) |->
              IF At(s, k) \in CharsOf(LowerChars) \cup CharsOf(Digits) \cup { "-", "_" }
              THEN At(s, k) ELSE "-"], 1, Len(s))

\* s.replace(/^-|-$/g, '')
StripHyphens(s) ==
    LET t == IF At(s, 1) = "-" THEN Sub(s, 2, Len(s)) ELSE s
    IN  IF Len(t) > 0 /\ At(t, Len(t)) = "-" THEN Sub(t, 1, Len(t) - 1) ELSE t

\* lines 545-551
sanitizeFileName(name) == StripHyphens(Squeeze(Hyphenate(ToLowerCase(name)), "-"))

\* lines 553-559
sanitizeSectionId(section) ==
    StripHyphens(Squeeze(Hyphenate(ToLowerCase(section)), "-"))

\* lines 503-515: a wikilink replaced by a cross-reference
WikilinkMatch(s, p) ==
    LET m == LinkMatch(s, p)
        linkText == IF m.text # "" THEN m.text ELSE m.target
        parts == SplitOn(m.target, "#")
    IN  IF m.len > 0
        THEN [len |-> m.len,
              by |-> IF Len(parts) > 1
                     THEN "xref:" \o sanitizeFileName(parts[1]) \o ".adoc#"
                          \o sanitizeSectionId(parts[2]) \o "[" \o linkText \o "]"
                     ELSE "xref:" \o sanitizeFileName(m.target) \o ".adoc["
                          \o linkText \o "]"]
        ELSE NoMatch

\* line 521: /\s+\^([a-zA-Z0-9\-_]+)$/m replaced by ' [[block-$1]]'
BlockAnchorMatch(s, p) ==
    LET w == RunOf(s, p, WhiteSpace)
        n == RunOf(s, p + w + 1, IdChars)
    IN  IF w >= 1 /\ At(s, p + w) = "^" /\ n >= 1 /\ AtLineEnd(s, p + w + 1 + n)
        THEN [len |-> w + 1 + n,
              by |-> " [[block-" \o Sub(s, p + w + 1, p + w + n) \o "]]"]
        ELSE NoMatch

\* lines 524-528: /\[\[([^\]|]+)#\^([a-zA-Z0-9\-_]+)(\|([^\]]+))?\]\]/ with
\* a note name of k characters
BlockLinkWith(s, p, k) ==
    LET i == p + 2 + k + 2
        n == RunOf(s, i, IdChars)
        q == i + n
        m == IF At(s, q) = "|" THEN RunExcept(s, q + 1, { "]" }) ELSE 0
        r == IF m >= 1 THEN q + 1 + m ELSE q
        noteName == Sub(s, p + 2, p + 1 + k)
    IN  IF Has(s, p + 2 + k, "#^") /\ n >= 1 /\ Has(s, r, "]]")
        THEN [len |-> r + 2 - p,
              by |-> "xref:" \o sanitizeFileName(noteName) \o ".adoc#block-"
                     \o Sub(s, i, q - 1) \o "["
                     \o (IF m >= 1 THEN Sub(s, q + 1, r - 1)
                         ELSE noteName \o " (Block)")
                     \o "]"]
        ELSE NoMatch

\* the note name is the longest that lets the rest of the pattern match
BlockLinkMatch(s, p) ==
    LET names == { k \in 1..RunExcept(s, p + 2, { "]", "|" }) :
                     BlockLinkWith(s, p, k).len > 0 }
    IN  IF Has(s, p, "[[") /\ names # {}
        THEN BlockLinkWith(s, p, CHOOSE k \in names : \A j \in names : j <= k)
        ELSE NoMatch

\* lines 535-537: /\$\$([\s\S]*?)\$\$/ replaced by a stem block
BlockMathMatch(s, p) ==
    LET j == Find(s, "$$", p + 2)
    IN  IF Has(s, p, "$$") /\ j > 0
        THEN [len |-> j + 2 - p,
              by |-> "[stem]\n++++\n" \o Trim(Sub(s, p + 2, j - 1)) \o "\n++++"]
        ELSE NoMatch

\* line 540: /\$([^$]+)\$/ replaced by 'latexmath:[$1]'
InlineMathMatch(s, p) ==
    LET n == RunExcept(s, p + 1, { "$" })
    IN  IF At(s, p) = "$" /\ n >= 1 /\ At(s, p + 1 + n) = "$"
        THEN [len |-> n + 2, by |-> "latexmath:[" \o Sub(s, p + 1, p + n) \o "]"]
        ELSE NoMatch

\* \s+ or \s* (least: 1 or 0) followed by (.+)$ at position q: the length of
\* the white space matched, the longest that leaves a character of the line
\* for the text; -1 when there is none
SpaceBeforeText(s, q, least) ==
    LET ws == { w \in least..RunOf(s, q, WhiteSpace) :
                  q + w <= Len(s) /\ At(s, q + w) \notin LineTerminators }
    IN  IF ws = {} THEN -1 ELSE CHOOSE w \in ws : \A v \in ws : v <= w

\* lines 563-566: /^(#{1,6})\s+(.+)$/m replaced by the title after as many
\* equals signs as there are hashes
HeaderMatch(s, p) ==
    LET k == RunOf(s, p, { "#" })
        w == SpaceBeforeText(s, p + k, 1)
        t == RestOfLine(s, p + k + w)
    IN  IF AtLineStart(s, p) /\ k >= 1 /\ k <= 6 /\ w >= 1
        THEN [len |-> k + w + t,
              by |-> Repeat("=", k) \o " " \o Sub(s, p + k + w, p + k + w + t - 1)]
        ELSE NoMatch

\* lines 586-603: the three branches for renderDiagrams and canRender
\* the replace callback if it rendered the diagrams it can render: a diagram
\* block in place of the source block
CodeBlockTextRendered(language, code, renderDiagrams, canRender) ==
    IF renderDiagrams /\ language # "" /\ ToLowerCase(language) \in canRender
    THEN "[" \o language \o "]\n....\n" \o Trim(code) \o "\n...."
    ELSE "[source," \o (IF language # "" THEN language ELSE "text") \o "]\n----\n"
         \o Trim(code) \o "\n----"

\* lines 587-603: the three branches of the replace callback
CodeBlockText(language, code, renderDiagrams, canRender) ==
    IF ~renderDiagrams
    THEN "[source," \o (IF language # "" THEN language ELSE "text") \o "]\n----\n"
         \o Trim(code) \o "\n----"
    ELSE IF language # "" /\ ToLowerCase(language) \in canRender
    THEN "[source," \o language \o "]\n----\n" \o Trim(code) \o "\n----"
    ELSE "[source," \o (IF language # "" THEN language ELSE "text") \o "]\n----\n"
         \o Trim(code) \o "\n----"

\* the backquote, which a string of the model cannot hold: it is written as
\* a tilde, a character that no pattern of the conversion mentions
Backquote == "~"

Fence == Backquote \o Backquote \o Backquote

\* line 585: a fence, (\w+)?, \n?, ([\s\S]*?), a fence
CodeBlockMatch(s, p, renderDiagrams, canRender) ==
    LET l == RunOf(s, p + 3, WordChars)
        q == p + 3 + l + (IF At(s, p + 3 + l) = "\n" THEN 1 ELSE 0)
        j == Find(s, Fence, q)
    IN  IF Has(s, p, Fence) /\ j > 0
        THEN [len |-> j + 3 - p,
              by |-> CodeBlockText(Sub(s, p + 3, p + 2 + l), Sub(s, q, j - 1),
                                   renderDiagrams, canRender)]
        ELSE NoMatch

\* the item of a list after its marker at positions p + i .. q - 1
ListItem(s, p, i, q, marker) ==
    LET w == SpaceBeforeText(s, q, 1)
        t == RestOfLine(s, q + w)
    IN  IF w >= 1
        THEN [len |-> q + w + t - p,
              by |-> Repeat(marker, (i \div 2) + 1) \o " "
                     \o Sub(s, q + w, q + w + t - 1)]
        ELSE NoMatch

\* lines 613-616: /^(\s*)[-*+]\s+(.+)$/m
UnorderedItemMatch(s, p) ==
    LET i == RunOf(s, p, WhiteSpace)
    IN  IF AtLineStart(s, p) /\ At(s, p + i) \in { "-", "*", "+" }
        THEN ListItem(s, p, i, p + i + 1, "*")
        ELSE NoMatch

\* lines 619-622: /^(\s*)\d+\.\s+(.+)$/m
OrderedItemMatch(s, p) ==
    LET i == RunOf(s, p, WhiteSpace)
        d == RunOf(s, p + i, CharsOf(Digits))
    IN  IF AtLineStart(s, p) /\ d >= 1 /\ At(s, p + i + d) = "."
        THEN ListItem(s, p, i, p + i + d + 1, ".")
        ELSE NoMatch

\* /\[([^\]]{least,})\]\(([^)]+)\)/ at position p: the groups text and url
BracketMatch(s, p, least) ==
    LET n == RunExcept(s, p + 1, { "]" })
        q == p + 1 + n
        m == RunExcept(s, q + 2, { ")" })
    IN  IF At(s, p) = "[" /\ n >= least /\ Has(s, q, "](") /\ m >= 1
           /\ At(s, q + 2 + m) = ")"
        THEN [len |-> n + m + 4, text |-> Sub(s, p + 1, q - 1),
              url |-> Sub(s, q + 2, q + 1 + m)]
        ELSE [len |-> 0, text |-> "", url |-> ""]

\* lines 632-638: a markdown link replaced by a URL or link macro
LinkMacroMatch(s, p) ==
    LET m == BracketMatch(s, p, 1)
    IN  IF m.len > 0
        THEN [len |-> m.len,
              by |-> (IF StartsWith(m.url, "http://") \/ StartsWith(m.url, "https://")
                      THEN "" ELSE "link:")
                     \o m.url \o "[" \o m.text \o "]"]
        ELSE NoMatch

\* lines 864-867
basename(filePath) ==
    LET parts == SplitOn(filePath, "/") IN parts[Len(parts)]

\* lines 645-648: ![[path]] or ![[path|alt]] replaced by an image macro
WikiImageMatch(s, p) ==
    LET m == LinkMatch(s, p + 1)
    IN  IF At(s, p) = "!" /\ m.len > 0
        THEN [len |-> 1 + m.len,
              by |-> "image::" \o m.target \o "["
                     \o (IF m.text # "" THEN m.text
                         ELSE StripExtension(basename(m.target)))
                     \o "]"]
        ELSE NoMatch

\* lines 651-654: ![alt](path) replaced by an image macro
ImageMatch(s, p) ==
    LET m == BracketMatch(s, p + 1, 0)
    IN  IF At(s, p) = "!" /\ m.len > 0
        THEN [len |-> 1 + m.len,
              by |-> "image::" \o m.url \o "["
                     \o (IF m.text # "" THEN m.text
                         ELSE StripExtension(basename(m.url)))
                     \o "]"]
        ELSE NoMatch

\* line 724: /^>\s*(.+)$/m replaced by '____\n$1\n____'
BlockquoteMatch(s, p) ==
    LET w == SpaceBeforeText(s, p + 1, 0)
        t == RestOfLine(s, p + 1 + w)
    IN  IF AtLineStart(s, p) /\ At(s, p) = ">" /\ w >= 0
        THEN [len |-> 1 + w + t,
              by |-> "____\n" \o Sub(s, p + 1 + w, p + w + t) \o "\n____"]
        ELSE NoMatch

\* line 729: /^(---|\*\*\*|___)\s*$/m replaced by three apostrophes
HorizontalRuleMatch(s, p) ==
    LET ws == { w \in 0..RunOf(s, p + 3, WhiteSpace) : AtLineEnd(s, p + 3 + w) }
    IN  IF /\ AtLineStart(s, p)
           /\ Has(s, p, "---") \/ Has(s, p, "***") \/ Has(s, p, "___")
           /\ ws # {}
        THEN [len |-> 3 + (CHOOSE w \in ws : \A v \in ws : v <= w), by |-> "'''"]
        ELSE NoMatch

\* the first position at or after p where the pattern matches, 0 when it
\* matches nowhere; matches[q] is the match of the pattern at position q
NextMatch(matches, p) ==
    LET starts == { q \in p..Len(matches) : matches[q].len > 0 }
    IN  IF starts = {} THEN 0 ELSE Smallest(starts)

\* content.replace(pattern, ...) with the g flag, from position p: every
\* match, from left to right, none overlapping the one before it
RECURSIVE ReplaceFrom(_, _, _)
ReplaceFrom(s, matches, p) ==
    LET From(q) ==
            IF q = 0 THEN Sub(s, p, Len(s))
            ELSE Sub(s, p, q - 1) \o matches[q].by
                 \o ReplaceFrom(s, matches, q + matches[q].len)
    IN  IF p > Len(s) THEN "" ELSE From(NextMatch(matches, p))

\* content.replace(pattern, ...) for the pattern whose match at each
\* position p of the text is matches[p]
ReplaceAll(s, matches) == ReplaceFrom(s, matches, 1)

\* lines 428-433
convertObsidianTags(content) ==
    ReplaceAll(content, [p \in 1..Len(content) |-> TagMatch(content, p)])

\* lines 481-499
convertObsidianEmbeds(content) ==
    ReplaceAll(content, [p \in 1..Len(content) |-> EmbedMatch(content, p)])

\* lines 501-517
convertObsidianWikilinks(content) ==
    ReplaceAll(content, [p \in 1..Len(content) |-> WikilinkMatch(content, p)])

\* lines 519-531
convertObsidianBlockReferences(content) ==
    LET Links(s) == ReplaceAll(s, [p \in 1..Len(s) |-> BlockLinkMatch(s, p)])
    IN  Links(ReplaceAll(content, [p \in 1..Len(content) |-> BlockAnchorMatch(content, p)]))

\* lines 533-543
convertObsidianMath(content) ==
    LET Inline(s) == ReplaceAll(s, [p \in 1..Len(s) |-> InlineMathMatch(s, p)])
    IN  Inline(ReplaceAll(content, [p \in 1..Len(content) |-> BlockMathMatch(content, p)]))

\* lines 561-567
convertHeaders(content) ==
    ReplaceAll(content, [p \in 1..Len(content) |-> HeaderMatch(content, p)])

\* lines 569-582: **x** to *x*, then *x* to _x_, then __x__ to *x*
convertEmphasis(content) ==
    LET Double(s, d) == ReplaceAll(s, [p \in 1..Len(s) |-> DoubleMatch(s, p, d)])
        Single(s) == ReplaceAll(s, [p \in 1..Len(s) |-> SingleAsteriskMatch(s, p)])
    IN  Double(Single(Double(content, "*")), "_")

\* lines 584-604
convertCodeBlocks(content, settings) ==
    ReplaceAll(content,
               [p \in 1..Len(content) |->
                   CodeBlockMatch(content, p, settings.renderDiagrams, settings.canRender)])

\* lines 606-609: the text is returned as it is
convertInlineCode(content) == content

\* lines 611-625
convertLists(content) ==
    LET Ordered(s) == ReplaceAll(s, [p \in 1..Len(s) |-> OrderedItemMatch(s, p)])
    IN  Ordered(ReplaceAll(content, [p \in 1..Len(content) |-> UnorderedItemMatch(content, p)]))

\* lines 627-641
convertLinks(content) ==
    ReplaceAll(content, [p \in 1..Len(content) |-> LinkMacroMatch(content, p)])

\* lines 643-657
convertImages(content) ==
    LET Images(s) == ReplaceAll(s, [p \in 1..Len(s) |-> ImageMatch(s, p)])
    IN  Images(ReplaceAll(content, [p \in 1..Len(content) |-> WikiImageMatch(content, p)]))

\* lines 722-725
convertBlockquotes(content) ==
    ReplaceAll(content, [p \in 1..Len(content) |-> BlockquoteMatch(content, p)])

\* lines 727-730
convertHorizontalRules(content) ==
    ReplaceAll(content, [p \in 1..Len(content) |-> HorizontalRuleMatch(content, p)])

(***************************************************************************)
(* VaultExporter.extractFrontmatter and addDocumentHeader.  A value of the *)
(* frontmatter is a record [isArray, items]: an array of strings, or a     *)
(* string as the one item.                                                 *)
(***************************************************************************)
\* ---\s*\n at position p, with a the length of the white space: a set of
\* lengths, the regular expression tries the longest first
FenceSpaces(s, p) ==
    { a \in 0..RunOf(s, p + 3, WhiteSpace) : Has(s, p, "---") /\ At(s, p + 3 + a) = "\n" }

\* \n---\s*\n closes the frontmatter at position e
ClosesFrontmatter(s, e) == At(s, e) = "\n" /\ FenceSpaces(s, e + 1) # {}

\* line 377: content.match(/^---\s*\n([\s\S]*?)\n---\s*\n/): the text of the
\* group (from, to) and the length of the match; len 0 when there is none
FrontmatterMatch(s) ==
    LET opens == { a \in FenceSpaces(s, 1) :
                     \E e \in (5 + a)..Len(s) : ClosesFrontmatter(s, e) }
        a == Largest(opens)
        e == Smallest({ x \in (5 + a)..Len(s) : ClosesFrontmatter(s, x) })
    IN  IF opens = {} THEN [len |-> 0, from |-> 1, to |-> 0]
        ELSE [len |-> e + 4 + Largest(FenceSpaces(s, e + 1)),
              from |-> 5 + a, to |-> e - 1]

\* v.replace(/['"]/g, '')
RemoveQuotes(v) ==
    Concat([k \in 1..Len(v) |-> IF At(v, k) \in { "'", "\"" } THEN "" ELSE At(v, k)],
           1, Len(v))

\* value.replace(/^['"]|['"]$/g, '')
Unquote(v) ==
    LET t == IF At(v, 1) \in { "'", "\"" } THEN Sub(v, 2, Len(v)) ELSE v
    IN  IF Len(t) > 0 /\ At(t, Len(t)) \in { "'", "\"" }
        THEN Sub(t, 1, Len(t) - 1) ELSE t

\* lines.indexOf(line) + 1, as an index from 1: the line after the first
\* line equal to this one
AfterFirst(lines, line) ==
    1 + Smallest({ k \in 1..Len(lines) : lines[k] = line })

\* lines 402-405: the items of the lines from line j on that start with '-'
RECURSIVE DashItems(_, _)
DashItems(lines, j) ==
    IF j > Len(lines) \/ ~StartsWith(Trim(lines[j]), "-") THEN << >>
    ELSE << Trim(Sub(Trim(lines[j]), 2, Len(Trim(lines[j])))) >>
         \o DashItems(lines, j + 1)

\* lines 393-412: the value of one line, after its colon
FrontmatterValue(lines, line, value) ==
    IF StartsWith(value, "[") /\ EndsWith(value, "]")
    THEN LET cells == SplitOn(Sub(value, 2, Len(value) - 1), ",")
         IN  [isArray |-> TRUE,
              items |-> [k \in 1..Len(cells) |-> RemoveQuotes(Trim(cells[k]))]]
    ELSE IF StartsWith(value, "-")
    THEN [isArray |-> TRUE,
          items |-> << Trim(Sub(value, 2, Len(value))) >>
                    \o DashItems(lines, AfterFirst(lines, line))]
    ELSE [isArray |-> FALSE, items |-> << Unquote(value) >>]

\* lines 386-414: the pairs of key and value of the lines from line i on
RECURSIVE FrontmatterPairs(_, _)
FrontmatterPairs(lines, i) ==
    IF i > Len(lines) THEN << >>
    ELSE LET trimmed == Trim(lines[i])
             colon == IndexOf(trimmed, ":")
         IN  (IF trimmed = "" \/ StartsWith(trimmed, "#") \/ colon = 0
              THEN << >>
              ELSE << [key |-> Trim(Sub(trimmed, 1, colon - 1)),
                       value |-> FrontmatterValue(lines, lines[i],
                                     Trim(Sub(trimmed, colon + 1, Len(trimmed))))] >>)
             \o FrontmatterPairs(lines, i + 1)

\* lines 376-426: the content without the frontmatter, and the frontmatter
\* (found: there is one)
extractFrontmatter(content) ==
    LET m == FrontmatterMatch(content)
    IN  IF m.len = 0 THEN [content |-> content, found |-> FALSE, pairs |-> << >>]
        ELSE [content |-> Sub(content, m.len + 1, Len(content)), found |-> TRUE,
              pairs |-> FrontmatterPairs(SplitOn(Sub(content, m.from, m.to), "\n"), 1)]

\* frontmatter[key] is set and is not the empty string
HasField(pairs, key) ==
    \E k \in 1..Len(pairs) :
        /\ pairs[k].key = key
        /\ \A j \in (k + 1)..Len(pairs) : pairs[j].key # key
        /\ pairs[k].value.isArray \/ pairs[k].value.items[1] # ""

\* frontmatter[key]: the value assigned last
Field(pairs, key) == pairs[Largest({ k \in 1..Len(pairs) : pairs[k].key = key })].value

\* a field in a template string: the items of an array joined by a comma
Attribute(pairs, key, name, suffix) ==
    IF HasField(pairs, key)
    THEN ":" \o name \o ": " \o Join(Field(pairs, key).items, ",") \o suffix \o "\n"
    ELSE ""

\* a field whose array is joined by a comma and a space
ListAttribute(pairs, key, name) ==
    IF HasField(pairs, key)
    THEN ":" \o name \o ": "
         \o Join(Field(pairs, key).items, IF Field(pairs, key).isArray THEN ", " ELSE ",")
         \o "\n"
    ELSE ""

\* lines 363-372
StandardAttributes ==
    ":doctype: article\n:toc: left\n:toclevels: 3\n:sectlinks:\n:sectanchors:\n"
    \o ":source-highlighter: highlight.js\n:stem: latexmath\n\n"

\* lines 337-374
addDocumentHeader(content, file, frontmatter) ==
    "= " \o ReplaceFirst(file.name, ".md", "") \o "\n"
    \o (IF frontmatter.found
        THEN Attribute(frontmatter.pairs, "author", "author", "")
             \o Attribute(frontmatter.pairs, "email", "email", "")
             \o Attribute(frontmatter.pairs, "created", "revdate", "")
             \o Attribute(frontmatter.pairs, "modified", "revdate", "")
             \o Attribute(frontmatter.pairs, "description", "description", "")
             \o ListAttribute(frontmatter.pairs, "keywords", "keywords")
             \o ListAttribute(frontmatter.pairs, "tags", "keywords")
             \o ListAttribute(frontmatter.pairs, "aliases", "aliases")
             \o Attribute(frontmatter.pairs, "cssclass", "stylesheet", ".css")
        ELSE "")
    \o StandardAttributes
    \o content

\* lines 311-313: the stages that run before the wikilink stage
StagesBeforeWikilinks(content) ==
    convertObsidianEmbeds(convertObsidianCallouts(convertObsidianTags(content)))

\* lines 311-316: the stages for the constructs of Obsidian, in their order
ObsidianStages(content) ==
    convertObsidianMath(convertObsidianBlockReferences(convertObsidianWikilinks(
        StagesBeforeWikilinks(content))))

\* lines 323-328: the stages that run when the await of convertCodeBlocks
\* has resumed
StagesAfterCodeBlocks(content) ==
    convertHorizontalRules(convertBlockquotes(convertTables(convertImages(
        convertLinks(convertLists(convertInlineCode(content)))))))

\* lines 318-328: the stages for the constructs of markdown, in their order
MarkdownStages(content, settings) ==
    StagesAfterCodeBlocks(convertCodeBlocks(convertEmphasis(convertHeaders(content)),
                                            settings))

\* lines 306-322: the conversion up to its await, with the text that
\* convertCodeBlocks has returned
ConversionSuspended(content, settings) ==
    [t |-> "pending",
     awaited |-> convertCodeBlocks(
                     convertEmphasis(convertHeaders(
                         ObsidianStages(extractFrontmatter(content).content))),
                     settings)]

\* lines 322-333: the conversion from its await on
ConversionResumed(suspended, content, file) ==
    addDocumentHeader(StagesAfterCodeBlocks(suspended.awaited), file,
                      extractFrontmatter(content))

\* lines 302-335; settings: the export settings and the languages the plugin
\* registry can render
convertMarkdownToAsciiDoc(content, file, settings) ==
    ConversionResumed(ConversionSuspended(content, settings), content, file)

(***************************************************************************)
(* The stages of the conversion applied on their own to texts built from   *)
(* the constructs they convert.                                            *)
(***************************************************************************)
MaxSpans == 3

SpanKinds == { "doubleAsterisk", "doubleUnderscore", "singleAsterisk", "plain" }

SpanTexts == { "b", "two words" }

Spans == [kind : SpanKinds, text : SpanTexts]

\* a span as it is written in markdown
MarkdownSpan(span) ==
    CASE span.kind = "doubleAsterisk" -> "**" \o span.text \o "**"
      [] span.kind = "doubleUnderscore" -> "__" \o span.text \o "__"
      [] span.kind = "singleAsterisk" -> "*" \o span.text \o "*"
      [] span.kind = "plain" -> span.text

\* texts of one to MaxSpans spans, a space between two spans
EmphasisInputs ==
    { [kind |-> "emphasis", spans |-> spans,
       data |-> Join([k \in 1..Len(spans) |-> MarkdownSpan(spans[k])], " ")] :
        spans \in UNION { [1..n -> Spans] : n \in 1..MaxSpans } }

MaxColumns == 3
MaxBodyRows == 2

\* the cells of a markdown table row as one line
MarkdownRow(cells) ==
    "|" \o Join([k \in 1..Len(cells) |-> " " \o cells[k] \o " "], "|") \o "|"

SeparatorCells == { "---", ":-:" }

\* a header row, a separator row and the body rows
MarkdownTable(columns, bodyRows, sep) ==
    << MarkdownRow([c \in 1..columns |-> "H"]) >>
    \o << IF sep = "---" THEN "|" \o Repeat("---|", columns)
          ELSE MarkdownRow([c \in 1..columns |-> sep]) >>
    \o [r \in 1..bodyRows |-> MarkdownRow([c \in 1..columns |-> "c"])]

\* tables of 1..MaxColumns columns and 0..MaxBodyRows body rows, on their own
\* or between two lines of text
TableInputs ==
    { [kind |-> "table", columns |-> columns, bodyRows |-> bodyRows,
       before |-> before, after |-> after,
       data |-> Join(before \o MarkdownTable(columns, bodyRows, sep) \o after, "\n")] :
        columns \in 1..MaxColumns, bodyRows \in 0..MaxBodyRows,
        sep \in SeparatorCells,
        before \in { << >>, << "intro" >> }, after \in { << >>, << "end" >> } }

MaxLines == 5

\* the lines of a note: md is the line, open the lines that open an
\* admonition for a header line, body the line without its quote marker
LineKinds ==
    { [md |-> "> [!note] Title", header |-> TRUE, quoted |-> TRUE,
       open |-> << "[NOTE]", ".Title", "====" >>, body |-> "[!note] Title"],
      [md |-> ">[!warning-]", header |-> TRUE, quoted |-> TRUE,
       open |-> << "[WARNING]", "[%collapsible]", "====" >>, body |-> "[!warning-]"],
      [md |-> "> first", header |-> FALSE, quoted |-> TRUE,
       open |-> << >>, body |-> "first"],
      [md |-> ">second", header |-> FALSE, quoted |-> TRUE,
       open |-> << >>, body |-> "second"],
      [md |-> "text", header |-> FALSE, quoted |-> FALSE,
       open |-> << >>, body |-> "text"],
      [md |-> "", header |-> FALSE, quoted |-> FALSE,
       open |-> << >>, body |-> ""] }

\* notes of one to MaxLines lines
CalloutInputs ==
    { [kind |-> "callout", lines |-> lines,
       data |-> Join([k \in 1..Len(lines) |-> lines[k].md], "\n")] :
        lines \in UNION { [1..n -> LineKinds] : n \in 1..MaxLines } }

\* the targets and the sections of a wikilink: the name as written, and the
\* file name and the section id of the cross-reference
LinkTargets == { [name |-> "Target", file |-> "target"],
                 [name |-> "Other Note", file |-> "other-note"] }

LinkSections == { [name |-> "Section", id |-> "section"],
                  [name |-> "My Section", id |-> "my-section"] }

\* [[target#section]] or [[target#section|alias]]; no alias: ""
Wikilink(target, section, alias) ==
    "[[" \o target.name \o "#" \o section.name
    \o (IF alias = "" THEN "" ELSE "|" \o alias) \o "]]"

\* the languages the plugin registry can render
CanRender == { "mermaid" }

\* documents with one wikilink to a section, on its own or within a
\* sentence, converted under either value of renderDiagrams
DocumentInputs ==
    { [kind |-> "document", target |-> target, section |-> section,
       alias |-> alias, before |-> before, after |-> after,
       file |-> [name |-> "note.md"],
       settings |-> [renderDiagrams |-> rd, canRender |-> CanRender],
       data |-> before \o Wikilink(target, section, alias) \o after] :
        target \in LinkTargets, section \in LinkSections,
        alias \in { "", "alias" }, before \in { "", "See " },
        after \in { "", " for more.\n" }, rd \in BOOLEAN }

\* the language tags of a fence ("": untagged) and the codes between two
\* fences
FenceLanguages == { "", "js", "mermaid", "Mermaid" }

FenceCodes == { "x = 1\n", "  graph TD\n    A --> B\n\n", "a\n\nb" }

\* the languages the capability lookup may accept
RenderableLanguages == { "mermaid", "js" }

\* texts with one fenced block, converted under every value of
\* renderDiagrams and every answer of the capability lookup
CodeBlockInputs ==
    { [kind |-> "codeBlock", language |-> language, code |-> code,
       before |-> before, after |-> after,
       settings |-> [renderDiagrams |-> rd, canRender |-> can],
       data |-> before \o Fence \o language \o "\n" \o code \o Fence \o after] :
        language \in FenceLanguages, code \in FenceCodes,
        before \in { "", "Text\n\n" }, after \in { "", "\nmore" },
        rd \in BOOLEAN, can \in SUBSET RenderableLanguages }

\* the identifiers of a block
BlockIds == { "abc", "my-block_1" }

\* a block reference [[note#^id]] or [[note#^id|alias]]
BlockReference(target, id, alias) ==
    "[[" \o target.name \o "#^" \o id
    \o (IF alias = "" THEN "" ELSE "|" \o alias) \o "]]"

\* documents with a line that ends in a block identifier and a reference
\* to a block of a note
BlockInputs ==
    { [kind |-> "blocks", line |-> line, id |-> id, target |-> target,
       refId |-> refId, alias |-> alias,
       file |-> [name |-> "note.md"],
       settings |-> [renderDiagrams |-> rd, canRender |-> CanRender],
       data |-> line \o " ^" \o id \o "\n\nSee "
                \o BlockReference(target, refId, alias) \o "."] :
        line \in { "A paragraph", "Some text here" }, id \in BlockIds,
        target \in LinkTargets, refId \in BlockIds,
        alias \in { "", "alias" }, rd \in BOOLEAN }

MaxRuleLines == 3

\* the rules of the conversion that are applied a second time to their own
\* output
Rules == { "inlineCode", "blockquote", "horizontalRule" }

\* the lines of a text with inline code, quotes and horizontal rules
RuleLines ==
    { "> quote", "> > nested", ">", "---", "___  ", "some ~code~ here", "" }

\* texts of one to MaxRuleLines lines, each given to one of the rules
RuleInputs ==
    { [kind |-> "rule", rule |-> rule, data |-> Join(lines, "\n")] :
        rule \in Rules,
        lines \in UNION { [1..n -> RuleLines] : n \in 1..MaxRuleLines } }

ConverterInputs ==
    EmphasisInputs \cup TableInputs \cup CalloutInputs \cup DocumentInputs
    \cup CodeBlockInputs \cup RuleInputs \cup BlockInputs

InitConvert ==
    /\ vault = << >>
    /\ isRunning = FALSE
    /\ server = 0
    /\ servers = << >>
    /\ calls = << >>
    /\ exportSettings = NoSettings
    /\ exportedFiles = << >>
    /\ reqs = << >>
    /\ fnIn \in ConverterInputs
    /\ fnOut = NoValue
    /\ storage = << >>
    /\ runs = << >>

ConvertFrame == UNCHANGED << vault, lifecycleVars, exporterVars, reqs, fnIn, fsVars >>

ApplyConvertEmphasis ==
    /\ fnIn.kind = "emphasis" /\ fnOut = NoValue
    /\ fnOut' = [text |-> convertEmphasis(fnIn.data)]
    /\ ConvertFrame

ApplyConvertTables ==
    /\ fnIn.kind = "table" /\ fnOut = NoValue
    /\ fnOut' = [text |-> convertTables(fnIn.data)]
    /\ ConvertFrame

ApplyConvertObsidianCallouts ==
    /\ fnIn.kind = "callout" /\ fnOut = NoValue
    /\ fnOut' = [text |-> convertObsidianCallouts(fnIn.data)]
    /\ ConvertFrame

\* convertMarkdownToAsciiDoc is called: it runs up to its await and returns
\* a promise
ApplyConvertMarkdownToAsciiDoc ==
    /\ fnIn.kind \in { "document", "blocks" } /\ fnOut = NoValue
    /\ fnOut' = ConversionSuspended(fnIn.data, fnIn.settings)
    /\ ConvertFrame

\* its await resumes: the promise resolves with the text
ResumeConvertMarkdownToAsciiDoc ==
    /\ fnIn.kind \in { "document", "blocks" }
    /\ "awaited" \in DOMAIN fnOut
    /\ fnOut' = [text |-> ConversionResumed(fnOut, fnIn.data, fnIn.file)]
    /\ ConvertFrame

ApplyConvertCodeBlocks ==
    /\ fnIn.kind = "codeBlock" /\ fnOut = NoValue
    /\ fnOut' = [text |-> convertCodeBlocks(fnIn.data, fnIn.settings)]
    /\ ConvertFrame

\* a rule applied to a text and then to its own output: applied counts the
\* applications, once is the output of the first
ApplyConvertInlineCode ==
    /\ fnIn.kind = "rule" /\ fnIn.rule = "inlineCode"
    /\ \/ /\ fnOut = NoValue
          /\ fnOut' = [text |-> convertInlineCode(fnIn.data), applied |-> 1, once |-> ""]
       \/ /\ fnOut # NoValue /\ fnOut.applied = 1
          /\ fnOut' = [text |-> convertInlineCode(fnOut.text), applied |-> 2,
                       once |-> fnOut.text]
    /\ ConvertFrame

ApplyConvertBlockquotes ==
    /\ fnIn.kind = "rule" /\ fnIn.rule = "blockquote"
    /\ \/ /\ fnOut = NoValue
          /\ fnOut' = [text |-> convertBlockquotes(fnIn.data), applied |-> 1, once |-> ""]
       \/ /\ fnOut # NoValue /\ fnOut.applied = 1
          /\ fnOut' = [text |-> convertBlockquotes(fnOut.text), applied |-> 2,
                       once |-> fnOut.text]
    /\ ConvertFrame

ApplyConvertHorizontalRules ==
    /\ fnIn.kind = "rule" /\ fnIn.rule = "horizontalRule"
    /\ \/ /\ fnOut = NoValue
          /\ fnOut' = [text |-> convertHorizontalRules(fnIn.data), applied |-> 1, once |-> ""]
       \/ /\ fnOut # NoValue /\ fnOut.applied = 1
          /\ fnOut' = [text |-> convertHorizontalRules(fnOut.text), applied |-> 2,
                       once |-> fnOut.text]
    /\ ConvertFrame

NextConvert ==
    \/ ApplyConvertEmphasis
    \/ ApplyConvertInlineCode
    \/ ApplyConvertBlockquotes
    \/ ApplyConvertHorizontalRules
    \/ ApplyConvertCodeBlocks
    \/ ApplyConvertTables
    \/ ApplyConvertObsidianCallouts
    \/ ApplyConvertMarkdownToAsciiDoc
    \/ ResumeConvertMarkdownToAsciiDoc

SpecConvert == InitConvert /\ [][NextConvert]_vars

(***************************************************************************)
(* VaultExporter.resolveExportPath applied on its own to target locations  *)
(* of every form: relative, Unix absolute, drive-letter, UNC, and          *)
(* drive-relative ("C:out", which isAbsolutePath does not recognize).      *)
(***************************************************************************)
MaxSegments == 3

\* the directory of the vault; relative adapter paths are resolved in it
VaultRoot == << "home", "vault" >>

PathSegments == { "out", "..", ".", "vault" }

SegmentLists == UNION { [1..n -> PathSegments] : n \in 1..MaxSegments }

PathForms == { "relative", "unix", "drive", "driveSlash", "unc", "driveRelative" }

TargetLocation(form, segs) ==
    CASE form = "relative" -> Join(segs, "/")
      [] form = "unix" -> "/" \o Join(segs, "/")
      [] form = "drive" -> "C:\\" \o Join(segs, "\\")
      [] form = "driveSlash" -> "d:/" \o Join(segs, "/")
      [] form = "unc" -> "\\\\srv\\" \o Join(segs, "\\")
      [] form = "driveRelative" -> "C:" \o Join(segs, "/")

PathInputs ==
    { [kind |-> "path", form |-> form, data |-> TargetLocation(form, segs)] :
        form \in PathForms, segs \in SegmentLists }

\* the segments of the directory named by segs, "." and ".." resolved
RECURSIVE Resolve(_, _)
Resolve(segs, out) ==
    IF Len(segs) = 0 THEN out
    ELSE IF Head(segs) = ".." THEN
        Resolve(Tail(segs), IF Len(out) = 0 THEN out ELSE SubSeq(out, 1, Len(out) - 1))
    ELSE IF Head(segs) = "." \/ Head(segs) = "" THEN Resolve(Tail(segs), out)
    ELSE Resolve(Tail(segs), out \o << Head(segs) >>)

\* the directory a non-absolute path denotes for the vault adapter
ResolveInVault(path) == Resolve(VaultRoot \o Split(path, "/"), << >>)

\* the directory is the vault root or lies below it
InsideVault(dir) ==
    /\ Len(dir) >= Len(VaultRoot)
    /\ SubSeq(dir, 1, Len(VaultRoot)) = VaultRoot

InitPaths ==
    /\ vault = << >>
    /\ isRunning = FALSE
    /\ server = 0
    /\ servers = << >>
    /\ calls = << >>
    /\ exportSettings = NoSettings
    /\ exportedFiles = << >>
    /\ reqs = << >>
    /\ fnIn \in PathInputs
    /\ fnOut = NoValue
    /\ storage = << >>
    /\ runs = << >>

ApplyResolveExportPath ==
    /\ fnIn.kind = "path" /\ fnOut = NoValue
    /\ fnOut' = [path |-> resolveExportPath(fnIn.data)]
    /\ UNCHANGED << vault, lifecycleVars, exporterVars, reqs, fnIn, fsVars >>

NextPaths == ApplyResolveExportPath

SpecPaths == InitPaths /\ [][NextPaths]_vars

(***************************************************************************)
(* Properties.                                                             *)
(***************************************************************************)
Handled == 1..Len(reqs)

LastCall == calls[Len(calls)]

\* the pack.entry calls of a response, in order
Entries(res) == SelectSeq(res.pack, LAMBDA e : e.op = "entry")

\* the number of pack.finalize calls of a response
Finalizations(res) == Len(SelectSeq(res.pack, LAMBDA e : e.op = "finalize"))

\* C1: start() on a running server raises an error and changes neither the
\* running flag nor the listener; stop() on a server that is not running
\* completes as a no-op and leaves the server stopped.
C1_LifecycleGuards ==
    [][ /\ (isRunning /\ Len(calls') > Len(calls) /\ LastCall'.op = "start")
           => /\ LastCall'.outcome = "error"
              /\ UNCHANGED << isRunning, server, servers >>
        /\ (~isRunning /\ Len(calls') > Len(calls) /\ LastCall'.op = "stop")
           => /\ LastCall'.outcome = "noop"
              /\ UNCHANGED << isRunning, server, servers >>
              /\ ~isRunning' ]_vars

\* a start() was refused on a running server and a stop() was a no-op
C1_Witness ==
    /\ \E c \in 1..Len(calls) : calls[c].op = "start" /\ calls[c].outcome = "error"
    /\ \E c \in 1..Len(calls) : calls[c].op = "stop" /\ calls[c].outcome = "noop"

\* the URL the handler builds for a request
UrlOf(q) == NewURL(q.url, q.host)

\* the path of a request: url.pathname, and for a target that new URL
\* rejects the target as it was sent, up to its query or fragment
PathOf(q) ==
    IF UrlOf(q).ok THEN pathname(UrlOf(q)) ELSE BeforeAny(q.url, { "?", "#" })

\* C2: for every request other than OPTIONS, an export run is started only
\* for (GET, /export) and (POST, /export), the health reply is sent only for
\* (GET, /health), and every other (method, path) is answered 404 with a
\* JSON error and without an export run.
C2_ExactRouting ==
    \A r \in Handled :
        LET q == reqs[r] IN
        q.method # "OPTIONS" =>
            /\ q.ran => /\ PathOf(q) = "/export"
                        /\ q.method \in {"GET", "POST"}
            /\ q.res.kind = "health" => /\ PathOf(q) = "/health"
                                        /\ q.method = "GET"
            /\ ( /\ ~(PathOf(q) = "/export" /\ q.method \in {"GET", "POST"})
                 /\ ~(PathOf(q) = "/health" /\ q.method = "GET") )
               => /\ q.pc = "done"
                  /\ q.res.statusLines = << 404 >>
                  /\ q.res.kind = "error"
                  /\ ~q.ran

\* the same for the requests whose target and Host header new URL accepts
C2_ParsedTargetsRouted ==
    \A r \in Handled :
        LET q == reqs[r] IN
        (q.method # "OPTIONS" /\ UrlOf(q).ok) =>
            /\ q.ran => /\ pathname(UrlOf(q)) = "/export"
                        /\ q.method \in {"GET", "POST"}
            /\ q.res.kind = "health" => /\ pathname(UrlOf(q)) = "/health"
                                        /\ q.method = "GET"
            /\ ( /\ ~(pathname(UrlOf(q)) = "/export" /\ q.method \in {"GET", "POST"})
                 /\ ~(pathname(UrlOf(q)) = "/health" /\ q.method = "GET") )
               => /\ q.pc = "done"
                  /\ q.res.statusLines = << 404 >>
                  /\ q.res.kind = "error"
                  /\ ~q.ran

\* a request whose target new URL rejects never starts an export run and
\* never gets the health reply
C2_RejectedTargetsRunNothing ==
    \A r \in Handled :
        ~UrlOf(reqs[r]).ok => ~reqs[r].ran /\ reqs[r].res.kind # "health"

\* C3: a POST /export whose body is not valid JSON is answered 400 with a
\* JSON error; the orchestrator is never invoked and nothing is written to
\* the archive.
C3_MalformedBody ==
    \A r \in Handled :
        LET q == reqs[r] IN
        ( /\ q.method = "POST" /\ UrlOf(q).ok /\ pathname(UrlOf(q)) = "/export"
          /\ ~JSONParse(q.body).ok )
        => /\ ~q.ran
           /\ q.res.pack = << >>
           /\ (q.pc = "done" /\ q.threw = "none")
              => /\ q.res.statusLines = << 400 >>
                 /\ q.res.kind = "error"

\* a malformed body has been read and answered
C3_Witness ==
    \E r \in Handled : /\ reqs[r].method = "POST"
                       /\ reqs[r].body = "{"
                       /\ reqs[r].pc = "done"
                       /\ reqs[r].threw = "none"
                       /\ reqs[r].res.statusLines = << 400 >>

\* C4: on the body path includeAttachments is true unless the field is the
\* literal false; on the query path it is true only for the string "true";
\* renderDiagrams is false unless literal true (body) or "true" (query);
\* exportPath is the default folder name when absent; format is asciidoc.
C4_SettingsFromRequest ==
    fnOut # NoValue =>
        /\ fnOut.format = "asciidoc"
        /\ fnIn.kind = "body" =>
              /\ fnOut.includeAttachments = (fnIn.ia # JBool(FALSE))
              /\ fnOut.renderDiagrams = (fnIn.rd = JBool(TRUE))
              /\ fnIn.ep = Undefined => fnOut.exportPath = JStr("vault-export")
              /\ fnIn.ep = JStr("out") => fnOut.exportPath = JStr("out")
        /\ fnIn.kind = "query" =>
              /\ fnOut.includeAttachments = (fnIn.ia = JStr("true"))
              /\ fnOut.renderDiagrams = (fnIn.rd = JStr("true"))
              /\ fnIn.ep = JStr(Absent) => fnOut.exportPath = JStr("vault-export")
              /\ fnIn.ep = JStr("out") => fnOut.exportPath = JStr("out")

\* a body whose includeAttachments is the string "false" and that has no
\* exportPath gave includeAttachments = true
C4_Witness ==
    /\ fnOut # NoValue
    /\ fnIn.kind = "body"
    /\ fnIn.ia = JStr("false")
    /\ fnIn.ep = Undefined
    /\ fnOut.includeAttachments

\* the files of the vault that the exporter treats as markdown documents
RECURSIVE MarkdownPaths(_)
MarkdownPaths(files) ==
    IF Len(files) = 0 THEN << >>
    ELSE (IF Head(files).extension = "md" THEN << Head(files).path >> ELSE << >>)
         \o MarkdownPaths(Tail(files))

\* the paths of a bundle, in order
BundlePaths(bundle) == [k \in 1..Len(bundle) |-> bundle[k].path]

\* the content on disk of the vault file at a path
DataAt(path) == (CHOOSE k \in 1..Len(vault) : vault[k].path = path)

\* the vault of scenario B: one document with content and one image asset
ScenarioB ==
    /\ Len(vault) = 2
    /\ vault[1].extension = "md" /\ vault[1].data # << >>
    /\ isBinaryFile(vault[2].path)

\* C5: the bundle streamed for GET /export?includeAttachments=false holds
\* no asset entry: it is one document entry per document of the vault plus
\* the index, so for a vault of one document and one image asset it has
\* exactly 2 entries.
C5_NoAssetsWhenDisabled ==
    \A r \in Handled :
        LET q == reqs[r] IN
        ( /\ q.method = "GET" /\ q.returned
          /\ searchParamsGet(UrlOf(q), "includeAttachments") = JStr("false") )
        => /\ \A k \in 1..Len(q.exportData) : q.exportData[k].type # "asset"
           /\ Len(q.exportData) = Len(MarkdownPaths(vault)) + 1
           /\ ScenarioB => Len(q.exportData) = 2

\* C6: an exception becomes a 500 response only when nothing of the response
\* has been sent: a failed in-memory export is always answered 500 with a
\* JSON error, and after the 200 head no second status line and no error
\* body is written.
C6_ErrorOnlyBeforeHead ==
    \A r \in Handled :
        LET q == reqs[r] IN
        /\ Len(q.res.statusLines) <= 1
        /\ q.threw = "export" => /\ q.res.statusLines = << 500 >>
                                 /\ q.res.kind = "error"
                                 /\ q.res.pack = << >>
        /\ q.threw = "stream" => /\ q.res.statusLines = << 200 >>
                                 /\ q.res.kind = "tar"

\* the streamer failed after the 200 head had been written
C6_Witness ==
    \E r \in Handled : /\ reqs[r].threw = "stream"
                       /\ reqs[r].res.headersSent
                       /\ reqs[r].pc = "done"

\* C7: the streamer adds one entry per entry of the bundle, in bundle order
\* and under the entry's path, then finalizes once; nothing is added after
\* the finalization.
C7_OneEntryPerBundleEntry ==
    \A r \in Handled :
        LET q == reqs[r]
            n == Len(Entries(q.res))
        IN  /\ Finalizations(q.res) <= 1
            \* entries come first, in bundle order, under the bundle's paths
            /\ n <= Len(q.exportData)
            /\ \A k \in 1..n : /\ q.res.pack[k].op = "entry"
                               /\ q.res.pack[k].name = q.exportData[k].path
            \* a streamer that ran to its end added every entry and finalized
            /\ (q.returned /\ q.pc = "done" /\ q.threw = "none")
               => /\ n = Len(q.exportData)
                  /\ q.res.pack[n + 1] = Finalize
                  /\ Len(q.res.pack) = n + 1

\* a bundle of three entries has been streamed and finalized
C7_Witness ==
    \E r \in Handled : /\ reqs[r].returned
                       /\ reqs[r].threw = "none"
                       /\ Len(reqs[r].exportData) = 3
                       /\ Len(reqs[r].res.pack) = 4

\* C8: for every asset the bytes written into the archive are the asset's
\* content on disk, for binary assets and for assets classified as text.
C8_AssetRoundTrip ==
    \A r \in Handled :
        LET q == reqs[r] IN
        \A k \in 1..Len(Entries(q.res)) :
            q.exportData[k].type = "asset"
            => q.res.pack[k].data = [bytes |-> vault[DataAt(q.exportData[k].path)].data]

\* C9: in every bundle returned by a memory-mode export the entry paths are
\* pairwise distinct.
C9_UniquePaths ==
    \A r \in Handled :
        reqs[r].returned =>
            \A a, b \in 1..Len(reqs[r].exportData) :
                a # b => reqs[r].exportData[a].path # reqs[r].exportData[b].path

\* C10: a memory-mode export yields one document entry per markdown document
\* of the vault, at the document's path with .md rewritten to .adoc, whatever
\* its content; n documents without asset inclusion yield n + 1 entries.
C10_OneEntryPerDocument ==
    \A r \in Handled :
        LET q == reqs[r]
            docs == SelectSeq(SubSeq(q.exportData, 1, Len(q.exportData) - 1),
                              LAMBDA e : e.type = "asciidoc")
            md == MarkdownPaths(vault)
        IN  q.returned =>
                /\ BundlePaths(docs) = [k \in 1..Len(md) |-> ReplaceMdExt(md[k])]
                /\ ~q.settings.includeAttachments => Len(q.exportData) = Len(md) + 1

\* the paths the index entry of a bundle links to
IndexTargets(bundle) ==
    LET ix == bundle[Len(bundle)].content.indexOf
    IN  { ix[k].xref : k \in 1..Len(ix) }

\* the paths of the document entries a bundle holds before its index
DocumentPaths(bundle) ==
    { bundle[k].path : k \in { x \in 1..(Len(bundle) - 1) :
                                 bundle[x].type = "asciidoc" } }

\* C11: every path the generated index lists is the path of a document
\* entry the run produced (present in the bundle before the index), and no
\* listed path belongs to an asset entry only.
C11_IndexListsOnlyConverted ==
    \A r \in Handled :
        reqs[r].returned =>
            IndexTargets(reqs[r].exportData) \subseteq DocumentPaths(reqs[r].exportData)

\* the storage calls that write a file
IsWrite(call) == call.op \in {"write", "writeBinary"}

\* the storage calls made in the exportVault call a
CallsOf(a) == { n \in 1..Len(storage) : storage[n].call = a }

\* the ordering inside the exportVault call a: each of its writes comes after
\* a mkdir of the directory written into has returned, none of its
\* documents is written once its asset copying has started, and its index
\* is written after every other storage call it makes
RunOrdered(a) ==
    \A n \in CallsOf(a) :
        /\ IsWrite(storage[n])
           => \E m \in 1..(n - 1) : /\ storage[m].op = "mkdir"
                                    /\ storage[m].path = dirname(storage[n].path)
        /\ storage[n].by = "exportMarkdownFileAsAsciiDoc"
           => \A m \in CallsOf(a) : m < n => storage[m].by # "copyAllAttachments"
        /\ storage[n].by = "generateIndexAsciiDoc"
           => \A m \in CallsOf(a) : m <= n

\* in memory mode the index entry is the last entry of the bundle
IndexEntryLast ==
    \A r \in Handled :
        LET bundle == reqs[r].exportData IN
        reqs[r].returned
        => /\ bundle[Len(bundle)].path = "index.adoc"
           /\ bundle[Len(bundle)].content.t = "index"

\* C12: in a filesystem export every file is written after the mkdir of its
\* directory has been awaited, no document is written once asset copying
\* has started, and the index is written after every other storage call; in
\* memory mode the index entry is the last entry of the bundle.
C12_RunOrdering ==
    /\ \A a \in 1..Len(runs) : RunOrdered(a)
    /\ IndexEntryLast

\* the same while one exportVault call has been made: a call that no other
\* call overlaps
C12_LoneRunOrdered ==
    /\ Len(runs) = 1 => RunOrdered(1)
    /\ IndexEntryLast

\* the write of the index of call a itself failed
IndexWriteFailed(a) ==
    \E n \in CallsOf(a) :
        storage[n].by = "generateIndexAsciiDoc" /\ ~storage[n].ok

\* C13: a failure on a single document or asset never aborts the run: a
\* filesystem export that has ended has resolved with the index generated
\* last (unless the write of the index itself failed), and a memory-mode
\* export never fails.
C13_ItemFailureSkipped ==
    /\ \A a \in 1..Len(runs) :
         (runs[a].pc = "done" /\ ~IndexWriteFailed(a))
         => /\ runs[a].outcome = "resolved"
            /\ CallsOf(a) # { }
            /\ storage[Largest(CallsOf(a))].by = "generateIndexAsciiDoc"
    /\ \A r \in Handled : reqs[r].threw # "export"

\* C14: when the mkdir of the target root fails, exportVault ends there with
\* a rejection: no storage call of the run follows the failed creation of
\* the root.
C14_RootFailureAborts ==
    \A n \in 1..Len(storage) :
        (storage[n].by = "exportVault" /\ ~storage[n].ok)
        => /\ n = Largest(CallsOf(storage[n].call))
           /\ runs[storage[n].call].pc = "done"
           /\ runs[storage[n].call].outcome = "rejected"

\* C15: the memory export makes no storage call: no step of a request,
\* from its arrival to the end of its response, whatever it exports and
\* whatever the plugin's own exports are doing, adds a mkdir or a write to
\* the calls made on the storage.
C15_MemoryModeNoStorage ==
    [][reqs' # reqs => storage' = storage]_vars

\* a memory export has returned a bundle with a document, an asset and the
\* index while a filesystem export of the plugin was in progress, and the
\* storage calls made are those of the plugin's exports
C15_Witness ==
    /\ \E r \in 1..Len(reqs) :
        /\ reqs[r].returned
        /\ \E k \in 1..Len(reqs[r].exportData) : reqs[r].exportData[k].type = "asset"
        /\ \E k \in 1..Len(reqs[r].exportData) : reqs[r].exportData[k].type = "asciidoc"
    /\ \E a \in 1..Len(runs) : runs[a].pc \notin { "root", "done" }
    /\ storage # << >>
    /\ \A n \in 1..Len(storage) : storage[n].call # 0

\* C16: a target location that isAbsolutePath does not recognize resolves to
\* a parent-relative path that denotes a directory outside the vault root;
\* a target with a leading slash, in drive-letter form or in UNC form is
\* returned unchanged.
C16_ResolvedOutsideVault ==
    (fnOut # NoValue /\ fnIn.kind = "path") =>
        /\ ~isAbsolutePath(fnIn.data)
              => /\ StartsWith(fnOut.path, "../")
                 /\ ~InsideVault(ResolveInVault(fnOut.path))
        /\ fnIn.form \in { "unix", "drive", "driveSlash", "unc" }
              => fnOut.path = fnIn.data

\* the span as the claim has it after the emphasis stage
EmphasizedSpan(span) ==
    CASE span.kind = "doubleAsterisk" -> "*" \o span.text \o "*"
      [] span.kind = "doubleUnderscore" -> "*" \o span.text \o "*"
      [] span.kind = "singleAsterisk" -> "_" \o span.text \o "_"
      [] span.kind = "plain" -> span.text

\* C17: after convertEmphasis every double-asterisk span and every
\* double-underscore span of the input is a strong span *text*, and every
\* single-asterisk span is an italic span _text_; a double-asterisk span
\* is not emitted as italic.
C17_EmphasisSpans ==
    (fnOut # NoValue /\ fnIn.kind = "emphasis") =>
        fnOut.text = Join([k \in 1..Len(fnIn.spans) |-> EmphasizedSpan(fnIn.spans[k])], " ")

\* the output table the claim describes: the column declaration, the
\* delimiter, the emphasized header row, one row per body row, the delimiter
AsciiDocTable(columns, bodyRows) ==
    << "[cols=\"" \o Join([c \in 1..columns |-> "1"], ",") \o "\"]", "|===",
       Join([c \in 1..columns |-> "|*H*"], " ") >>
    \o [r \in 1..bodyRows |-> Join([c \in 1..columns |-> "|c"], " ")]
    \o << "|===", "" >>

\* C18: a table of a header row, a separator row and body rows is converted
\* to one column declaration, one emphasized header row and one row per body
\* row; the separator row is not a row of the output table.
C18_SeparatorRowDropped ==
    (fnOut # NoValue /\ fnIn.kind = "table") =>
        SplitOn(fnOut.text, "\n")
            = fnIn.before \o AsciiDocTable(fnIn.columns, fnIn.bodyRows) \o fnIn.after

\* a header line stands before line i in the run of quoted lines of line i
HeaderBefore(lines, i) ==
    \E h \in 1..(i - 1) : lines[h].header /\ \A j \in h..i : lines[j].quoted

\* line i is a header line that opens a callout
Opens(lines, i) == lines[i].header /\ ~HeaderBefore(lines, i)

\* line i is a quoted line that follows the header line of a callout
InBody(lines, i) == lines[i].quoted /\ HeaderBefore(lines, i)

\* the callout of line i ends with line i
Closes(lines, i) ==
    /\ Opens(lines, i) \/ InBody(lines, i)
    /\ i = Len(lines) \/ ~lines[i + 1].quoted

\* the lines of the output for the lines from line i on
RECURSIVE CalloutLines(_, _)
CalloutLines(lines, i) ==
    IF i > Len(lines) THEN << >>
    ELSE (IF Opens(lines, i) THEN lines[i].open
          ELSE IF InBody(lines, i) THEN << lines[i].body >>
          ELSE << lines[i].md >>)
         \o (IF Closes(lines, i) THEN << "====" >> ELSE << >>)
         \o CalloutLines(lines, i + 1)

\* C19: a header line opens one admonition; the quoted lines that follow it
\* are its body, in order and without the quote marker; the admonition is
\* closed once, before the next line that is not quoted or at the end of the
\* text; the delimiters of the output are balanced, and the lines outside
\* the callouts are unchanged.
C19_CalloutScanner ==
    (fnOut # NoValue /\ fnIn.kind = "callout") =>
        LET out == SplitOn(fnOut.text, "\n")
            opened == { i \in 1..Len(fnIn.lines) : Opens(fnIn.lines, i) }
        IN  /\ out = CalloutLines(fnIn.lines, 1)
            /\ Cardinality({ k \in 1..Len(out) : out[k] = "====" })
                  = 2 * Cardinality(opened)
            /\ Cardinality({ k \in 1..Len(out) : out[k] \in { "[NOTE]", "[WARNING]" } })
                  = Cardinality(opened)

\* a header line with a title, three quoted lines and a line of text have
\* been converted: one admonition with the three lines as its body
C19_Witness ==
    /\ fnOut # NoValue
    /\ fnIn.kind = "callout"
    /\ fnIn.data = "> [!note] Title\n> first\n>second\n> first\ntext"
    /\ fnOut.text = "[NOTE]\n.Title\n====\nfirst\nsecond\nfirst\n====\ntext"

\* the text holds the part
Contains(text, part) == Find(text, part, 1) > 0

\* the cross-reference the claim gives for the wikilink of a document
CrossReference(doc) ==
    "xref:" \o doc.target.file \o ".adoc#" \o doc.section.id \o "["
    \o (IF doc.alias = "" THEN doc.target.name \o "#" \o doc.section.name
        ELSE doc.alias)
    \o "]"

\* C20: the conversion of a document with a wikilink to a section,
\* [[Target#Section]] or [[Target#Section|alias]], holds the cross-reference
\* xref:target.adoc#section[text] in its place, and the wikilink reaches the
\* wikilink stage as it was written.
C20_SectionWikilink ==
    ("text" \in DOMAIN fnOut /\ fnIn.kind = "document") =>
        /\ fnOut.text = "= note\n" \o StandardAttributes
                        \o fnIn.before \o CrossReference(fnIn) \o fnIn.after
        /\ Contains(StagesBeforeWikilinks(extractFrontmatter(fnIn.data).content),
                    Wikilink(fnIn.target, fnIn.section, fnIn.alias))

\* the source block of a fenced block: its language tag, "text" when it has
\* none, around the trimmed code
SourceBlock(language, code) ==
    "[source," \o (IF language = "" THEN "text" ELSE language) \o "]\n----\n"
    \o Trim(code) \o "\n----"

\* C21: the conversion of a fenced block never renders: under every value of
\* renderDiagrams and every answer of the capability lookup the block becomes
\* the source block of its own language tag and its trimmed code, and the
\* text around it is kept.
C21_CodeFenceNeverRenders ==
    (fnOut # NoValue /\ fnIn.kind = "codeBlock") =>
        fnOut.text = fnIn.before \o SourceBlock(fnIn.language, fnIn.code) \o fnIn.after

\* a diagram fence converted with renderDiagrams set and a registry that can
\* render its language
C21_Witness ==
    /\ fnOut # NoValue /\ fnIn.kind = "codeBlock"
    /\ fnIn.settings.renderDiagrams
    /\ fnIn.language = "Mermaid" /\ "mermaid" \in fnIn.settings.canRender
    /\ fnOut.text = fnIn.before \o SourceBlock(fnIn.language, fnIn.code) \o fnIn.after

\* C22: the inline-code, blockquote and horizontal-rule rules are
\* idempotent: a rule applied to its own output gives that output again.
C22_RulesIdempotent ==
    (fnIn.kind = "rule" /\ fnOut # NoValue /\ fnOut.applied = 2) =>
        fnOut.text = fnOut.once

\* the inline-code and horizontal-rule rules alone are idempotent
C22_OtherRulesIdempotent ==
    (fnIn.kind = "rule" /\ fnIn.rule # "blockquote"
     /\ fnOut # NoValue /\ fnOut.applied = 2) =>
        fnOut.text = fnOut.once

\* the calls of directory creation made on the storage so far
DirectoryCalls == { c \in 1..Len(storage) : storage[c].op = "mkdir" }

\* C23: in a filesystem export each directory of the target tree is created
\* exactly once: no path is passed to directory creation a second time.
C23_DirectoryCreatedOnce ==
    \A a, b \in DirectoryCalls :
        (storage[a].call = storage[b].call /\ storage[a].path = storage[b].path)
        => a = b

\* the directories that recreateVaultStructure derives from the documents
\* and assets are each created once by it
C23_StructureCreatedOnce ==
    \A a, b \in { c \in DirectoryCalls : storage[c].by = "recreateVaultStructure" } :
        (storage[a].call = storage[b].call /\ storage[a].path = storage[b].path)
        => a = b

\* the target paths of the assets in the files the first exportVault call
\* enumerated at its start, and the target paths assets were written to
SnapshotAssets ==
    { joinPath(runs[1].es.exportPath, runs[1].allFiles[i].path) :
        i \in { k \in 1..Len(runs[1].allFiles) : runs[1].allFiles[k].extension # "md" } }

AssetsWritten ==
    { storage[c].path :
        c \in { k \in 1..Len(storage) : storage[k].by = "copyAllAttachments"
                                         /\ storage[k].op # "mkdir" } }

\* C24: the vault is enumerated once per run, at its start: the assets a run
\* copies are those of the files it enumerated then, also when a file is
\* added to or removed from the vault during the run (stated for an export
\* that no other exportVault call overlaps).
C24_SingleSnapshot ==
    Len(runs) = 1 =>
        /\ AssetsWritten \subseteq SnapshotAssets
        /\ (runs[1].pc = "done" /\ runs[1].outcome = "resolved"
            /\ runs[1].failures = 0 /\ runs[1].es.includeAttachments)
           => AssetsWritten = SnapshotAssets

\* the inline anchor of a block, and the beginning of a cross-reference to
\* that anchor in the document of a note
BlockAnchor(id) == "[[block-" \o id \o "]]"

BlockCrossReference(target, id) == "xref:" \o target.file \o ".adoc#block-" \o id \o "["

\* C25: block anchors and block references agree through the pipeline: the
\* line ending in ^id gets the anchor block-id, and a reference [[note#^id]]
\* becomes a cross-reference to the anchor block-id of the note's document.
C25_BlockReferencesAgree ==
    ("text" \in DOMAIN fnOut /\ fnIn.kind = "blocks") =>
        /\ Contains(fnOut.text, fnIn.line \o " " \o BlockAnchor(fnIn.id))
        /\ Contains(fnOut.text, BlockCrossReference(fnIn.target, fnIn.refId))

\* the anchor alone is produced by the pipeline, and the stage of the block
\* references on its own produces both
C25_AnchorsAndStageAlone ==
    ("text" \in DOMAIN fnOut /\ fnIn.kind = "blocks") =>
        /\ Contains(fnOut.text, fnIn.line \o " " \o BlockAnchor(fnIn.id))
        /\ Contains(convertObsidianBlockReferences(fnIn.data),
                    BlockCrossReference(fnIn.target, fnIn.refId))
        /\ Contains(convertObsidianBlockReferences(fnIn.data),
                    fnIn.line \o " " \o BlockAnchor(fnIn.id))

\* the paths of the entries of an export of the vault under the settings of
\* a request: its documents, its assets if the settings include them, the
\* index
OwnPaths(settings) ==
    { ReplaceMdExt(vault[k].path) : k \in { x \in 1..Len(vault) : vault[x].extension = "md" } }
    \cup (IF settings.includeAttachments
          THEN { vault[k].path : k \in { x \in 1..Len(vault) : vault[x].extension # "md" } }
          ELSE { })
    \cup { "index.adoc" }

\* C26: overlapping export requests are isolated: the bundle of each
\* response holds the entries of its own run, each once, none of them from
\* the run of another request, and is built with its own request's settings:
\* it has asset entries only if those settings include the attachments.
C26_OverlappingRunsIsolated ==
    \A r \in Handled :
        LET q == reqs[r] IN
        q.returned =>
            /\ \A a, b \in 1..Len(q.exportData) :
                    q.exportData[a].path = q.exportData[b].path => a = b
            /\ \A k \in 1..Len(q.exportData) :
                    /\ q.exportData[k].path \in OwnPaths(q.settings)
                    /\ q.exportData[k].type = "asset" => q.settings.includeAttachments
            /\ \A path \in OwnPaths([includeAttachments |-> FALSE]) :
                    \E k \in 1..Len(q.exportData) : q.exportData[k].path = path

\* the same for the vaults of the overlapping requests when the requests
\* are served one at a time
C26_SerialRunsIsolated ==
    vault \in OverlapVaults => C26_OverlappingRunsIsolated

\* the servers that are bound or being bound
Listeners == { s \in 1..Len(servers) : servers[s] \in { "binding", "listening" } }

\* C27: one HttpExportServer binds at most one listener: a second start()
\* made before the listen callback of the first has fired creates no second
\* server, so every listener is the one the server object refers to.
C27_OneListener ==
    /\ Cardinality(Listeners) <= 1
    /\ \A s \in Listeners : server = s

\* the last call made on the server is a stop() that has completed
StopCompleted ==
    /\ calls # << >>
    /\ LastCall.op = "stop"
    /\ LastCall.outcome \in { "noop", "resolved" }

\* C28: once stop() has completed and until the next call of start(), the
\* server is not running and no listener is bound, also when stop() was
\* called while an earlier start() was pending.
C28_StoppedStaysStopped ==
    StopCompleted =>
        /\ ~isRunning
        /\ \A s \in 1..Len(servers) : servers[s] # "listening"

\* the same when every start() has settled before stop() is called and no
\* start() is made while another is pending
C28_StoppedAfterSettledStart ==
    (/\ StopCompleted
     /\ \A c \in 1..Len(calls) :
            calls[c].op = "start" /\ calls[c].outcome # "error" =>
                /\ c < Len(calls)
                /\ calls[c + 1].op = "stop" => calls[c + 1].outcome # "noop"
                /\ calls[c + 1].op = "start" => calls[c + 1].outcome = "error")
    => /\ ~isRunning
       /\ \A s \in 1..Len(servers) : servers[s] # "listening"

\* C29: exportVault leaves the settings value of its caller unchanged, so
\* exports run one after the other with the same settings value resolve to
\* the same target location.
C29_CallerSettingsUnchanged ==
    \A a \in 1..Len(runs) :
        /\ runs[a].passed = runs[a].given
        /\ runs[a].from # 0
           => runs[a].passed.exportPath = runs[runs[a].from].passed.exportPath

\* for an absolute target location both hold
C29_AbsoluteUnchanged ==
    \A a \in 1..Len(runs) :
        isAbsolutePath(runs[a].given.exportPath) =>
            /\ runs[a].passed = runs[a].given
            /\ runs[a].from # 0
               => runs[a].passed.exportPath = runs[runs[a].from].passed.exportPath

\* path as seen from the target root
RelativeTo(root, path) ==
    IF StartsWith(path, root \o "/") THEN Sub(path, Len(root) + 2, Len(path))
    ELSE path

\* the assets of the vault
VaultAssets == { k \in 1..Len(vault) : ~EndsWith(vault[k].path, ".md") }

\* both exports have ended, with the same settings, and no read, mkdir or
\* write has failed in either: the memory export has returned its bundle
\* with an asset entry for every asset it was to read, the filesystem export
\* has resolved without a failed storage call
BothSinksDone ==
    /\ Len(runs) = 1
    /\ runs[1].pc = "done" /\ runs[1].outcome = "resolved" /\ runs[1].failures = 0
    /\ Len(reqs) = 1 /\ reqs[1].returned
    /\ runs[1].given = ExportSettingsOf(reqs[1].settings)
    /\ reqs[1].settings.includeAttachments =>
          Cardinality({ e \in 1..Len(reqs[1].exportData) :
                          reqs[1].exportData[e].type = "asset" })
            = Cardinality(VaultAssets)

\* (path relative to the target root, kind) of what the filesystem export
\* has written, from its entries and from the write calls on the storage
WrittenEntries ==
    { [path |-> RelativeTo(runs[1].es.exportPath, runs[1].ef[e].path), kind |-> runs[1].ef[e].type] :
        e \in 1..Len(runs[1].ef) }

WrittenPaths ==
    { RelativeTo(runs[1].es.exportPath, storage[c].path) :
        c \in { k \in 1..Len(storage) : storage[k].op \in {"write", "writeBinary"} } }

\* (path, kind) of the memory bundle
BundleEntries ==
    { [path |-> reqs[1].exportData[e].path, kind |-> reqs[1].exportData[e].type] :
        e \in 1..Len(reqs[1].exportData) }

\* the documents of both exports have the same path and the same text
SameDocuments ==
    { [path |-> RelativeTo(runs[1].es.exportPath, runs[1].ef[e].path), content |-> runs[1].ef[e].content] :
        e \in { k \in 1..Len(runs[1].ef) : runs[1].ef[k].type = "asciidoc" } }
    = { [path |-> reqs[1].exportData[e].path, content |-> reqs[1].exportData[e].content] :
        e \in { k \in 1..Len(reqs[1].exportData) : reqs[1].exportData[k].type = "asciidoc" } }

\* an asset is binary in the filesystem export when it is written with
\* writeBinary, and binary in the bundle when its content is the base64
\* encoding of its bytes
SameClassification ==
    \A k \in VaultAssets :
        (\E c \in 1..Len(storage) :
            /\ storage[c].op = "writeBinary"
            /\ RelativeTo(runs[1].es.exportPath, storage[c].path) = vault[k].path)
        <=> (\E e \in 1..Len(reqs[1].exportData) :
               /\ reqs[1].exportData[e].type = "asset"
               /\ reqs[1].exportData[e].path = vault[k].path
               /\ reqs[1].exportData[e].content = JStr(Base64Encode(vault[k].data))
               /\ reqs[1].exportData[e].content # JStr(vault[k].data))

\* C30: for the same vault and the same settings, with no I/O failure, the
\* filesystem export writes the (path relative to the target root, kind)
\* that the memory bundle holds, every document has the same converted text
\* in both, and every asset is text or binary in both alike.
C30_SinksAgree ==
    BothSinksDone =>
        /\ WrittenEntries = BundleEntries
        /\ WrittenPaths = { x.path : x \in BundleEntries }
        /\ SameDocuments
        /\ SameClassification

\* both exports have ended on a vault with a document and a binary asset in
\* a folder, assets included
C30_Witness ==
    /\ BothSinksDone
    /\ runs[1].given.includeAttachments
    /\ \E k \in VaultAssets : isBinaryFile(vault[k].path) /\ dirname(vault[k].path) # "."
    /\ \E e \in 1..Len(runs[1].ef) : runs[1].ef[e].type = "asset"
    /\ \E e \in 1..Len(runs[1].ef) : runs[1].ef[e].type = "asciidoc" /\ runs[1].ef[e].content.t = "adoc"

====
